---- MODULE Spec2Model ----
(***************************************************************************)
(* Model of src/lib/speedtest-engine.ts, of the page that drives it and of *)
(* the routes it talks to.                                                 *)
(*                                                                         *)
(* Spec       the throughput orchestrator, measureDownloadSpeed /          *)
(*            measureUploadSpeed: N transfer loops (async functions) on a  *)
(*            single-threaded event loop, any transport timing.            *)
(* FixedSpec  the same run over a transport that answers every transfer    *)
(*            exactly `delay` ms after it was issued, never cancelled.     *)
(* ProberSpec measureLatency: one run of sequential probes.                *)
(* RankerSpec selectBestServer: concurrent probe runs, then the choice.    *)
(* PolicySpec getOptimalConnections / getChunkSize applied to estimates.   *)
(* CacheSpec  uploadDataCache over successive calls of measureUploadSpeed. *)
(* TestSpec   startTest / cancelTest of the page (src/unnamed/part_005),   *)
(*            every engine call reduced to its call and its return;        *)
(*            TestFairSpec adds that the save request settles.             *)
(* ApiSpec    POST and DELETE of src/app/api/results/route.ts with their   *)
(*            rate limiter, for one client address.                        *)
(* PageSpec   the page under several invocations of startTest that share   *)
(*            abortControllerRef and the phase.                            *)
(* StatusSpec the throughput run, never cancelled, against every answer    *)
(*            the download and upload routes give, error bodies included;  *)
(*            StatusFairSpec adds that time passes and that every call     *)
(*            completes or fails.                                          *)
(*                                                                         *)
(* Every action is one task of the event loop: the code that runs,         *)
(* without yielding, from the resumption of an await up to the next await. *)
(* A specification leaves the variables of the other components at their   *)
(* idle values.                                                            *)
(*                                                                         *)
(* Numbers.  Clock readings (performance.now()) are integer milliseconds.  *)
(* A floating-point quotient is kept as an exact rational                  *)
(* [num |-> n, den |-> d]; d = 0 stands for the IEEE results NaN (n = 0)   *)
(* and Infinity (n > 0).  A number reported in a snapshot's timeElapsed /  *)
(* timeRemaining field is kept in thousandths of the reported number.      *)
(***************************************************************************)
EXTENDS Integers, Sequences, FiniteSets, TLC

\* ------------------------------------------------------------- bounds ----
MaxConnections == 2      \* largest connection count N of a run
MaxChunks == 2           \* transfers the transport completes in one run
MaxProbes == 4           \* largest probe count of a measureLatency call
MaxServers == 3          \* longest candidate list given to selectBestServer
MaxUploadSizes == 7      \* distinct chunk sizes successive upload runs use
MaxRegens == 2           \* generations of a payload of one size that are followed
MaxStored == 1           \* rows of test_results that are followed
MaxTests == 2            \* invocations of startTest on one page

\* Clock readings the model samples (milliseconds): the call of the run at
\* StartClock, then readings around the 100 ms progress threshold and around
\* the expiry of a 1 s budget.
StartClock == 50
ClockValues == {StartClock + d : d \in {0, 100, 150, 1000, 1050}}

\* ------------------------------------------------- program constants -----
ProgressIntervalMs == 100
DownloadEstimatedTotal == 20000
MiB == 1024 * 1024
ChunkSizes == {1 * MiB}
Durations == {0, 1}
ErrorBodyLen == 44
ProbeDelayMs == 50
RankProbeCount == 5
Sentinel == 9999
CacheLimit == 5
FullProbeCount == 20
MainDuration == 10
MinMainConnections == 8

Loops == 1..MaxConnections

VARIABLES
    kind,         \* "download" | "upload": which function is running
    config,       \* [connections, chunkSize, duration]
    isCloudflare, \* the endpoint URL contains 'cloudflare.com'
    hasProgress,  \* an onProgress observer was passed
    aborted,      \* abortSignal.aborted
    now,          \* performance.now()
    phase,        \* "init" | "running" | "returned"
    startTime, lastUpdate, totalBytes, samples,
    pc,           \* per loop: "idle" | "fetch" | "body" | "done"
    chunkStart,   \* per loop: chunkStart of the transfer in flight
    outcome,      \* how the returned promise settled
    result,       \* the SpeedResult
    emitted,      \* the latest call of onProgress: its number, time, argument
    delivered,    \* bytes of all transfers the transport completed
    fixed,        \* fixed-delay transport: its delay, chunks done per loop
    prober,       \* one call of measureLatency
    ranker,       \* one call of selectBestServer
    policy,       \* calls of getOptimalConnections / getChunkSize
    cache,        \* uploadDataCache and the payload of the latest upload run
    test,         \* one invocation of startTest
    api,          \* the server of /api/results: limiter, store, last answer
    page,         \* the page under several invocations of startTest
    answers       \* HTTP statuses of the transfers a run counted, in order

vars == <<kind, config, isCloudflare, hasProgress, aborted, now, phase,
          startTime, lastUpdate, totalBytes, samples, pc, chunkStart,
          outcome, result, emitted, delivered, fixed, prober, ranker,
          policy, cache, test, api, page, answers>>

NoEmit == [n |-> 0, at |-> 0, afterAbort |-> FALSE]

NoResult == [mbps |-> [num |-> 0, den |-> 1], samples |-> <<>>,
             duration |-> 0, bytesTransferred |-> 0]

\* The components that are not running.
FixedIdle == [delay |-> 0, chunksDone |-> [i \in Loops |-> 0]]
NoLatency == [ping |-> [num |-> 0, den |-> 1],
              jitter |-> [num |-> 0, den |-> 1], samples |-> <<>>]

ProberIdle ==
    [count |-> 0,           \* the argument count
     i |-> 0,               \* the loop variable
     pc |-> "idle",         \* "idle" | "init" | "fetch" | "delay" | "returned"
     start |-> 0,           \* start of the probe in flight
     samples |-> <<>>,
     outcome |-> "pending", \* how the returned promise settled
     result |-> NoLatency,  \* the LatencyResult
     issued |-> <<>>,       \* loop indices of the requests issued, in order
     inflight |-> 0,        \* requests issued and not yet settled
     failed |-> 0,          \* requests that were rejected
     rtts |-> <<>>]         \* round trips of the answered requests, in order
RankerIdle ==
    [servers |-> <<>>,      \* the argument: the ids of the candidate list
     pc |-> "idle",         \* "idle" | "init" | "probing" | "returned"
     toTest |-> <<>>,       \* serversToTest
     settled |-> {},        \* ranked servers (by index) whose run has ended
     latencies |-> <<>>,    \* per settled server: [server, latency]
     runs |-> <<>>,         \* per ranked server: the samples its run ended with
     probed |-> {},         \* ids measureLatency was called for
     outcome |-> "pending", \* how the returned promise settled
     best |-> "none"]       \* id of the server returned

PolicyIdle ==
    [a |-> 0, b |-> 0,      \* two estimates, in hundredths of a Mbps
     pc |-> "idle",         \* "idle" | "init" | "called"
     connections |-> <<0, 0>>,  \* getOptimalConnections of a, of b
     download |-> <<0, 0>>,     \* getChunkSize(., 'download') of a, of b
     upload |-> <<0, 0>>]       \* getChunkSize(., 'upload') of a, of b

\* Chunk sizes of successive upload runs: multiples of 512 KiB.
UploadSizes == {k * (MiB \div 2) : k \in 1..MaxUploadSizes}
AllSizes == UploadSizes \cup ChunkSizes

\* No payload: what Map.get returns for a missing key.
NoPayload == [size |-> 0, serial |-> 0]

\* The module has just been loaded: the Map is empty.  A payload is named
\* by its size and by the number of the generation that produced it.
CacheEmpty ==
    [entries |-> {},                        \* the Map: {[size, payload]}
     generated |-> [z \in AllSizes |-> 0],  \* generations so far, per size
     data |-> NoPayload]                    \* `data` of the latest upload run

NoConfig == [connections |-> 0, chunkSize |-> 0, duration |-> 0]

NoBody == [serverId |-> "none", ping |-> [num |-> 0, den |-> 1],
           downloadMbps |-> [num |-> 0, den |-> 1],
           uploadMbps |-> [num |-> 0, den |-> 1]]

\* The page before a test: the initial component state (lines 55-66 of
\* part_005) and the locals of startTest.
TestIdle ==
    [pc |-> "idle",          \* the await startTest is at: "idle" | "servers" |
                             \* "ranking" | "latency" | "pretest" | "download"
                             \* | "upload" | "saving" | "done"
     phase |-> "idle",       \* state.phase
     controller |-> "none",  \* abortControllerRef.current: "none" | "live" |
                             \* "aborted"
     cancelled |-> FALSE,    \* cancelTest was invoked during this test
     failed |-> FALSE,       \* a stage threw
     server |-> "none",      \* bestServer
     ping |-> [num |-> 0, den |-> 1],
     preTest |-> NoResult,
     downloadResult |-> NoResult,
     uploadResult |-> NoResult,
     downloadSpeed |-> [num |-> 0, den |-> 1],  \* state.downloadSpeed
     uploadSpeed |-> [num |-> 0, den |-> 1],    \* state.uploadSpeed
     pretestConfig |-> NoConfig,   \* config of each measure* call made
     downloadConfig |-> NoConfig,
     uploadConfig |-> NoConfig,
     probeCount |-> 0,       \* count of the measureLatency call made
     probed |-> "none",      \* server of the measureLatency call made
     log |-> <<>>,           \* calls and returns of the engine, in order
     phases |-> <<>>,        \* values state.phase was set to, in order
     saveAttempts |-> 0,     \* POST /api/results requests issued
     submitted |-> NoBody,   \* body of the latest POST
     saved |-> "none",       \* how the POST settled: "ok" | "rejected" |
                             \* "failed"
     savedAfterCancel |-> FALSE]  \* the POST was issued after cancelTest

\* The server of /api/results after start-up: rateLimitMap and the table
\* test_results are empty, no request has been answered.  `posted` and
\* `deleted` keep, per client, the times of the requests the limiter let
\* through; `last` is the latest request and its answer.
\* One client address is followed: rateLimitMap is keyed by the address and
\* a request reads and writes the entry of its own address only.
Ips == {"203.0.113.7"}
NoRecord == [count |-> 0, resetTime |-> 0]     \* rateLimitMap.get(ip): none
NoAnswer == [method |-> "none", ip |-> "none", status |-> 0, at |-> 0]
ApiIdle ==
    [rateLimitMap |-> [ip \in Ips |-> NoRecord],
     store |-> <<>>,
     posted |-> [ip \in Ips |-> <<>>],
     deleted |-> [ip \in Ips |-> <<>>],
     last |-> NoAnswer]

\* The page with no startTest invocation made.
Tests == 1..MaxTests
PageIdle ==
    [phase |-> "idle",                 \* state.phase
     ref |-> 0,                        \* abortControllerRef.current: 0 is
                                       \* null, k the controller invocation
                                       \* k created
     abortedControllers |-> {},        \* controllers abort() was called on
     pc |-> [k \in Tests |-> "idle"],  \* the await each invocation is at
     signal |-> [k \in Tests |-> 0],   \* controller whose signal the engine
                                       \* call in flight was given
     cancelled |-> {}]                 \* invocations running when cancelTest
                                       \* was invoked

\* --------------------------------------------------------- arithmetic ----
Max(a, b) == IF a >= b THEN a ELSE b

\* Euclid's algorithm, as a function so that its arguments are values.
Euclid[a \in Nat, b \in Nat] == IF b = 0 THEN a ELSE Euclid[b, a % b]

Gcd(a, b) == Euclid[a, b]

\* The quotient n / d of two non-negative numbers, in lowest terms.
\* d = 0 gives what IEEE division gives: NaN for 0/0, Infinity for n/0.
Quot(n, d) ==
    IF d = 0 THEN [num |-> IF n = 0 THEN 0 ELSE 1, den |-> 0]
    ELSE LET g == Gcd(n, d) IN [num |-> n \div g, den |-> d \div g]

\* parseFloat(x.toFixed(2)): the nearest multiple of 1/100, a tie going to
\* the larger one; NaN and Infinity print and parse back as themselves.
ToFixed2(q) ==
    IF q.den = 0 THEN q
    ELSE Quot((2 * q.num * 100 + q.den) \div (2 * q.den), 100)

\* A byte count that is not a number: a field the body does not have reads
\* as undefined, and undefined added to a number, or multiplied, is NaN.
NaN == 0 - 1

\* ------------------------------------------------ measure*Speed: parts ----
\* Mutant: the elapsed-time exit is missing.
ShouldBreakAbortOnly(ab, elapsed, duration) == ab

\* Mutant: a loop still issues a transfer when the budget is exactly used up.
ShouldBreakStrictlyAfter(ab, elapsed, duration) ==
    ab \/ elapsed > duration * 1000

\* Lines 124-127 / 238-241: the two exits at the top of every iteration.
ShouldBreak(ab, elapsed, duration) ==
    ab \/ elapsed >= duration * 1000

\* Mutant: the transport call is not given the signal.
FetchSignalNotPassed(ab) == FALSE

\* signal: abortSignal (lines 139 / 249): the signal the transport call is
\* given, so that abort() rejects the call in flight.
FetchSignal(ab) == ab

\* What the transport can answer to one transfer.  Download: the requested
\* bytes, or the JSON error body of the route.  Upload: the JSON
\* acknowledgement of the route, which repeats the size of the body.
Responses(k, chunkSize) ==
    IF k = "download"
    THEN {[status |-> 200, byteLength |-> chunkSize],
          [status |-> 500, byteLength |-> ErrorBodyLen]}
    ELSE {[status |-> 200, bytesReceived |-> chunkSize]}

\* data.byteLength (line 146); bytesReceived (lines 254-262).
BytesCounted(k, cf, chunkSize, resp) ==
    IF k = "download" THEN resp.byteLength
    ELSE IF cf THEN chunkSize
    ELSE resp.bytesReceived

\* Mutant: the counter is assigned instead of incremented.
AddBytesAssign(total, bytes) == bytes

\* totalBytes += ... (lines 146 / 267)
AddBytes(total, bytes) ==
    IF total = NaN \/ bytes = NaN THEN NaN ELSE total + bytes

\* currentMbps (lines 149 / 270)
CurrentMbps(bytes, chunkDuration) ==
    IF bytes = NaN THEN Quot(0, 0)
    ELSE Quot(bytes * 8, chunkDuration * 1000)

\* Mutant: the observer is invoked for every chunk.
ShouldReportEveryChunk(chunkEnd, last, observer) == observer

\* chunkEnd - lastUpdate >= 100 && onProgress (lines 153 / 274)
ShouldReport(chunkEnd, last, observer) ==
    chunkEnd - last >= ProgressIntervalMs /\ observer

\* connections field of a snapshot (lines 162 / 282)
SnapshotConnections(k, connections) ==
    IF k = "download" THEN 1 ELSE connections

\* timeElapsed field (lines 155 / 276), in thousandths of the reported number
SnapshotElapsed(k, elapsedMs) ==
    IF k = "download" THEN elapsedMs * 1000 ELSE elapsedMs

\* timeRemaining field (lines 156-157 / 277), in thousandths
SnapshotRemaining(k, elapsedMs, duration) ==
    IF k = "download"
    THEN Max(0, Max(DownloadEstimatedTotal, duration) - elapsedMs) * 1000
    ELSE Max(0, duration * 1000 - elapsedMs)

\* The ProgressInfo handed to onProgress (lines 154-165 / 275-285).
Snapshot(k, total, start, chunkEnd, cfg) ==
    [mbps |-> IF total = NaN THEN Quot(0, 0)
              ELSE Quot(total * 8, (chunkEnd - start) * 1000),
     bytesTransferred |-> total,
     connections |-> SnapshotConnections(k, cfg.connections),
     timeElapsed |-> SnapshotElapsed(k, chunkEnd - start),
     timeRemaining |-> SnapshotRemaining(k, chunkEnd - start, cfg.duration)]

\* totalMbps (lines 180-185 / 300-305)
TotalMbps(bytes, start, end) ==
    IF bytes = NaN THEN Quot(0, 0)
    ELSE Quot(bytes * 8, (end - start) * 1000)

\* Mutant: the result is the mean of the per-chunk samples (in hundredths,
\* each sample truncated), as in the earlier version of the engine.
RECURSIVE SumHundredths(_)
SumHundredths(smp) ==
    IF smp = <<>> THEN 0
    ELSE (IF Head(smp).den = 0 THEN 0
          ELSE (Head(smp).num * 100) \div Head(smp).den)
         + SumHundredths(Tail(smp))

MakeResultMeanOfSamples(bytes, smp, start, end) ==
    [mbps |-> IF smp = <<>> THEN Quot(0, 0)
              ELSE Quot(SumHundredths(smp) \div Len(smp), 100),
     samples |-> smp,
     duration |-> end - start,
     bytesTransferred |-> bytes]

\* The SpeedResult (lines 194-199 / 314-319); duration in milliseconds.
MakeResult(bytes, smp, start, end) ==
    [mbps |-> ToFixed2(TotalMbps(bytes, start, end)),
     samples |-> smp,
     duration |-> end - start,
     bytesTransferred |-> bytes]

\* How the promise of measure*Speed settles: the function has no throw and
\* every await of a loop is inside its try, so it always fulfils (194 / 314).
SettleAs(ab) == "result"

\* ---------------------------------------------------- uploadDataCache ----
\* Mutant: the lookup never finds an entry.
CacheGetAlwaysMiss(entries, size) == NoPayload

\* uploadDataCache.get(chunkSize) (line 219)
CacheGet(entries, size) ==
    IF \E e \in entries : e.size = size
    THEN (CHOOSE e \in entries : e.size = size).payload
    ELSE NoPayload

\* uploadDataCache.set(chunkSize, data) (line 232): Map.set replaces the
\* value of a key that is present.
CacheSet(entries, size, payload) ==
    {e \in entries : e.size # size} \cup {[size |-> size, payload |-> payload]}

\* Mutant: a sixth entry is admitted.
CacheHasRoomInclusive(n) == n <= CacheLimit

\* uploadDataCache.size < 5 (line 231)
CacheHasRoom(n) == n < CacheLimit

\* The payload of an upload run (lines 219-234): the cached one, or a newly
\* generated one, which is stored while the cache has room.
PrepareUpload(c, chunkSize) ==
    LET hit == CacheGet(c.entries, chunkSize)
        fresh == [size |-> chunkSize, serial |-> c.generated[chunkSize] + 1]
    IN  IF hit # NoPayload THEN [c EXCEPT !.data = hit]
        ELSE [entries |-> IF CacheHasRoom(Cardinality(c.entries))
                          THEN CacheSet(c.entries, chunkSize, fresh)
                          ELSE c.entries,
              generated |-> [c.generated EXCEPT ![chunkSize] = @ + 1],
              data |-> fresh]

\* -------------------------------------------------------------- state ----
Init ==
    /\ kind \in {"download", "upload"}
    /\ config \in [connections : 0..MaxConnections,
                   chunkSize : ChunkSizes,
                   duration : Durations]
    \* only the upload loop branches on the endpoint family (line 253)
    /\ isCloudflare \in (IF kind = "upload" THEN BOOLEAN ELSE {FALSE})
    /\ hasProgress \in BOOLEAN
    /\ aborted = FALSE
    /\ now = StartClock
    /\ phase = "init"
    /\ startTime = 0
    /\ lastUpdate = 0
    /\ totalBytes = 0
    /\ samples = <<>>
    /\ pc = [i \in Loops |-> "idle"]
    /\ chunkStart = [i \in Loops |-> 0]
    /\ outcome = "pending"
    /\ result = NoResult
    /\ emitted = NoEmit
    /\ delivered = 0
    /\ fixed = FixedIdle
    /\ prober = ProberIdle
    /\ ranker = RankerIdle
    /\ policy = PolicyIdle
    /\ cache = CacheEmpty
    /\ test = TestIdle
    /\ api = ApiIdle
    /\ page = PageIdle
    /\ answers = <<>>

InFlight(i) == pc[i] \in {"fetch", "body"}

\* The top of the while loop of loop i, reached at time `now` with the
\* accumulator values tb and sm: either the next transfer is issued (up to its
\* await), or the loop returns; when it was the last loop, Promise.all
\* resolves and measure*Speed builds its result (lines 176-199 / 296-319).
LoopTop(i, tb, sm) ==
    LET brk == ShouldBreak(aborted, now - startTime, config.duration)
        last == \A j \in Loops \ {i} : ~InFlight(j)
    IN  /\ pc' = [pc EXCEPT ![i] = IF brk THEN "done" ELSE "fetch"]
        /\ chunkStart' = [chunkStart EXCEPT ![i] = IF brk THEN 0 ELSE now]
        /\ IF brk /\ last
           THEN /\ phase' = "returned"
                /\ outcome' = SettleAs(aborted)
                /\ result' = MakeResult(tb, sm, startTime, now)
           ELSE UNCHANGED <<phase, outcome, result>>

\* Mutant: any failed transfer ends the loop.
CatchAlwaysBreaks(i) ==
    /\ pc' = [pc EXCEPT ![i] = "done"]
    /\ chunkStart' = [chunkStart EXCEPT ![i] = 0]
    /\ IF \A j \in Loops \ {i} : ~InFlight(j)
       THEN /\ phase' = "returned"
            /\ outcome' = SettleAs(aborted)
            /\ result' = MakeResult(totalBytes, samples, startTime, now)
       ELSE UNCHANGED <<phase, outcome, result>>

\* The catch block of a loop (lines 168-171 / 288-291).
Catch(i) ==
    IF aborted
    THEN /\ pc' = [pc EXCEPT ![i] = "done"]
         /\ chunkStart' = [chunkStart EXCEPT ![i] = 0]
         /\ IF \A j \in Loops \ {i} : ~InFlight(j)
            THEN /\ phase' = "returned"
                 /\ outcome' = SettleAs(aborted)
                 /\ result' = MakeResult(totalBytes, samples, startTime, now)
            ELSE UNCHANGED <<phase, outcome, result>>
    ELSE LoopTop(i, totalBytes, samples)

\* ------------------------------------------------------------ actions ----
\* The call of loop i has been rejected by abort() and the loop has not yet
\* run its catch block: a promise reaction queued on the event loop.
Rejected(i) == InFlight(i) /\ FetchSignal(aborted)

RejectionQueued == \E i \in Loops : Rejected(i)

\* The clock moves on to its next reading between two tasks.  Queued promise
\* reactions run first: they take microseconds, a reading is 50 ms away.
Tick ==
    /\ phase = "running"
    /\ ~RejectionQueued
    /\ \E t \in ClockValues :
         /\ t > now
         /\ \A u \in ClockValues : u > now => t <= u
         /\ now' = t
    /\ UNCHANGED <<kind, config, isCloudflare, hasProgress, aborted, phase,
                   startTime, lastUpdate, totalBytes, samples, pc, chunkStart,
                   outcome, result, emitted, delivered,
                   fixed, prober, ranker,
                   policy, cache, test,
                   api, page, answers>>

\* The owner of the AbortController calls abort().
Abort ==
    /\ phase # "returned"
    /\ ~aborted
    /\ aborted' = TRUE
    /\ UNCHANGED <<kind, config, isCloudflare, hasProgress, now, phase,
                   startTime, lastUpdate, totalBytes, samples, pc, chunkStart,
                   outcome, result, emitted, delivered,
                   fixed, prober, ranker,
                   policy, cache, test,
                   api, page, answers>>

\* The call of measureDownloadSpeed / measureUploadSpeed: lines 116-120 and
\* 176 (upload: 213-234 and 296), every loop running up to its first await.
Start ==
    /\ phase = "init"
    /\ startTime' = now
    /\ lastUpdate' = now
    /\ totalBytes' = 0
    /\ samples' = <<>>
    /\ cache' = IF kind = "upload" THEN PrepareUpload(cache, config.chunkSize)
                ELSE cache
    /\ LET brk == ShouldBreak(aborted, 0, config.duration)
           go == ~brk /\ config.connections > 0
       IN  /\ pc' = [i \in Loops |->
                       IF i > config.connections THEN "idle"
                       ELSE IF brk THEN "done" ELSE "fetch"]
           /\ chunkStart' = [i \in Loops |->
                               IF i <= config.connections /\ ~brk THEN now ELSE 0]
           /\ IF go
              THEN /\ phase' = "running"
                   /\ UNCHANGED <<outcome, result>>
              ELSE /\ phase' = "returned"
                   /\ outcome' = SettleAs(aborted)
                   /\ result' = MakeResult(0, <<>>, now, now)
    /\ UNCHANGED <<kind, config, isCloudflare, hasProgress, aborted, now,
                   emitted, delivered, fixed, prober, ranker,
                   policy, test,
                   api, page, answers>>

\* await fetch(...) resolves with the response head (lines 137 / 245); the
\* loop goes on to await the body.
FetchResolve(i) ==
    /\ phase = "running"
    /\ pc[i] = "fetch"
    /\ ~FetchSignal(aborted)
    /\ pc' = [pc EXCEPT ![i] = "body"]
    /\ UNCHANGED <<kind, config, isCloudflare, hasProgress, aborted, now, phase,
                   startTime, lastUpdate, totalBytes, samples, chunkStart,
                   outcome, result, emitted, delivered,
                   fixed, prober, ranker,
                   policy, cache, test,
                   api, page, answers>>

\* The rest of an iteration once the body resp of loop i's transfer has
\* arrived: lines 142-167 / 252-287, then the top of the loop.
CompleteChunk(i, resp) ==
    LET bytes == BytesCounted(kind, isCloudflare, config.chunkSize, resp)
        chunkEnd == now
        tb == AddBytes(totalBytes, bytes)
        sm == Append(samples, CurrentMbps(bytes, chunkEnd - chunkStart[i]))
        report == ShouldReport(chunkEnd, lastUpdate, hasProgress)
    IN  /\ totalBytes' = tb
        /\ samples' = sm
        /\ delivered' = IF bytes = NaN THEN delivered ELSE delivered + bytes
        /\ emitted' = IF report
                      THEN [n |-> emitted.n + 1,
                            at |-> chunkEnd,
                            afterAbort |-> aborted,
                            info |-> Snapshot(kind, tb, startTime,
                                              chunkEnd, config)]
                      ELSE emitted
        /\ lastUpdate' = IF report THEN chunkEnd ELSE lastUpdate
        /\ LoopTop(i, tb, sm)

\* The body arrives (await response.arrayBuffer() / response.json()).
BodyResolve(i) ==
    /\ phase = "running"
    /\ pc[i] = "body"
    /\ ~FetchSignal(aborted)
    /\ Len(samples) < MaxChunks
    /\ \E resp \in Responses(kind, config.chunkSize) : CompleteChunk(i, resp)
    /\ UNCHANGED <<kind, config, isCloudflare, hasProgress, aborted, now,
                   startTime, fixed, prober, ranker,
                   policy, cache, test,
                   api, page, answers>>

\* A call in flight fails for a reason other than abort() (network error,
\* unparsable body): the catch block logs it and the loop goes on.
CallFail(i) ==
    /\ phase = "running"
    /\ InFlight(i)
    /\ ~FetchSignal(aborted)
    /\ Catch(i)
    /\ UNCHANGED <<kind, config, isCloudflare, hasProgress, aborted, now,
                   startTime, lastUpdate, totalBytes, samples, emitted,
                   delivered, fixed, prober, ranker,
                   policy, cache, test,
                   api, page, answers>>

\* abort() rejected the call in flight with an AbortError: the catch block
\* sees the signal aborted and leaves the loop.
AbortReject(i) ==
    /\ phase = "running"
    /\ Rejected(i)
    /\ Catch(i)
    /\ UNCHANGED <<kind, config, isCloudflare, hasProgress, aborted, now,
                   startTime, lastUpdate, totalBytes, samples, emitted,
                   delivered, fixed, prober, ranker,
                   policy, cache, test,
                   api, page, answers>>

Next ==
    \/ Tick
    \/ Abort
    \/ Start
    \/ \E i \in Loops : FetchResolve(i)
    \/ \E i \in Loops : BodyResolve(i)
    \/ \E i \in Loops : CallFail(i)
    \/ \E i \in Loops : AbortReject(i)

Spec == Init /\ [][Next]_vars

\* ------------------------------------- the run over a fixed-delay link ----
\* Delays of the transport (ms): dividing a 1 s budget, not dividing it,
\* equal to it, longer than it.
FixedDelays == {250, 300, 400, 1000, 1500}

InitFixed ==
    /\ kind \in {"download", "upload"}
    /\ config \in [connections : 0..MaxConnections,
                   chunkSize : ChunkSizes,
                   duration : Durations]
    /\ isCloudflare = FALSE
    /\ hasProgress \in BOOLEAN
    /\ aborted = FALSE
    /\ now = StartClock
    /\ phase = "init"
    /\ startTime = 0
    /\ lastUpdate = 0
    /\ totalBytes = 0
    /\ samples = <<>>
    /\ pc = [i \in Loops |-> "idle"]
    /\ chunkStart = [i \in Loops |-> 0]
    /\ outcome = "pending"
    /\ result = NoResult
    /\ emitted = NoEmit
    /\ delivered = 0
    /\ fixed \in [delay : FixedDelays, chunksDone : {[i \in Loops |-> 0]}]
    /\ prober = ProberIdle
    /\ ranker = RankerIdle
    /\ policy = PolicyIdle
    /\ cache = CacheEmpty
    /\ test = TestIdle
    /\ api = ApiIdle
    /\ page = PageIdle
    /\ answers = <<>>

\* The transfer of loop i is answered at this clock reading.
FixedDue(i) == InFlight(i) /\ now = chunkStart[i] + fixed.delay

\* Nothing is due: the clock moves on to the earliest answer.
FixedTick ==
    /\ phase = "running"
    /\ \A i \in Loops : ~FixedDue(i)
    /\ LET due == {chunkStart[i] + fixed.delay : i \in {j \in Loops : InFlight(j)}}
       IN  now' = CHOOSE t \in due : \A u \in due : t <= u
    /\ UNCHANGED <<kind, config, isCloudflare, hasProgress, aborted, phase,
                   startTime, lastUpdate, totalBytes, samples, pc, chunkStart,
                   outcome, result, emitted, delivered, fixed, prober, ranker,
                   policy, cache, test,
                   api, page, answers>>

\* The response head of loop i's transfer.
FixedHead(i) ==
    /\ FixedDue(i)
    /\ FetchResolve(i)

\* The body of loop i's transfer: a successful answer of the full size.
FixedBody(i) ==
    /\ phase = "running"
    /\ pc[i] = "body"
    /\ FixedDue(i)
    /\ CompleteChunk(i, IF kind = "download"
                        THEN [status |-> 200, byteLength |-> config.chunkSize]
                        ELSE [status |-> 200, bytesReceived |-> config.chunkSize])
    /\ fixed' = [fixed EXCEPT !.chunksDone[i] = @ + 1]
    /\ UNCHANGED <<kind, config, isCloudflare, hasProgress, aborted, now,
                   startTime, prober, ranker,
                   policy, cache, test,
                   api, page, answers>>

NextFixed ==
    \/ Start
    \/ FixedTick
    \/ \E i \in Loops : FixedHead(i)
    \/ \E i \in Loops : FixedBody(i)

FixedSpec == InitFixed /\ [][NextFixed]_vars

\* ------------------------------------------------------ measureLatency ----
\* Round-trip times of a probe (ms).
Rtts == {10, 30}

\* [...samples].sort((a, b) => a - b) (line 67)
SortAsc(smp) == SortSeq(smp, LAMBDA a, b : a < b)

\* sorted[Math.floor(sorted.length / 2)] (line 68), as an index from 1.
MedianIndex(n) == (n \div 2) + 1

\* ping (lines 67-68, 76); smp is not empty.
Ping(smp) == ToFixed2(Quot(SortAsc(smp)[MedianIndex(Len(smp))], 1))

RECURSIVE Sum(_)
Sum(smp) == IF smp = <<>> THEN 0 ELSE Head(smp) + Sum(Tail(smp))

RECURSIVE SumSq(_)
SumSq(smp) == IF smp = <<>> THEN 0 ELSE Head(smp) * Head(smp) + SumSq(Tail(smp))

\* jitter (lines 71-73, 77): the square root of the population variance, to
\* two decimals; smp is not empty.  The variance is
\* (n * SumSq - Sum^2) / n^2; h hundredths is its rounded root when
\* (2h - 1)^2 <= 40000 * variance < (2h + 1)^2.
Jitter(smp) ==
    LET n == Len(smp)
        v == n * SumSq(smp) - Sum(smp) * Sum(smp)
        top == 100 * SortAsc(smp)[n]
        h == CHOOSE k \in 0..top :
                 /\ (k = 0 \/ (2 * k - 1) * (2 * k - 1) * n * n <= 40000 * v)
                 /\ 40000 * v < (2 * k + 1) * (2 * k + 1) * n * n
    IN  Quot(h, 100)

\* The return statement (lines 75-79).
MakeLatency(smp) ==
    [ping |-> Ping(smp), jitter |-> Jitter(smp), samples |-> smp]

\* How the promise of measureLatency settles.  With no sample, sorted[0] is
\* undefined and median.toFixed (line 76) throws a TypeError.
MeasureSettles(smp) == IF smp = <<>> THEN "throw" ELSE "result"

\* Mutant: a failed probe records a zero sample.
OnProbeFailPushZero(smp) == Append(smp, 0)

\* The catch block of a probe (lines 56-58): it logs and records nothing.
OnProbeFail(smp) == smp

\* fetch(pingUrl, ...) of iteration p.i at time t (lines 46-52).
ProbeIssue(p, t) ==
    [p EXCEPT !.pc = "fetch", !.start = t,
              !.issued = Append(@, p.i), !.inflight = @ + 1]

\* After the loop (lines 66-79).
ProbeFinish(p) ==
    [p EXCEPT !.pc = "returned",
              !.outcome = MeasureSettles(p.samples),
              !.result = IF MeasureSettles(p.samples) = "result"
                         THEN MakeLatency(p.samples) ELSE NoLatency]

\* Mutant: the loop runs while i <= count.
ProbeLoopTopInclusive(p, t) ==
    IF p.i <= p.count THEN ProbeIssue(p, t) ELSE ProbeFinish(p)

\* The loop condition i < count (line 45).
ProbeLoopTop(p, t) ==
    IF p.i < p.count THEN ProbeIssue(p, t) ELSE ProbeFinish(p)

\* After the try / catch of iteration p.i (lines 60-63): the pause between
\* two probes, or i++ and the loop condition.
AfterProbe(p, t) ==
    IF p.i < p.count - 1 THEN [p EXCEPT !.pc = "delay"]
    ELSE ProbeLoopTop([p EXCEPT !.i = @ + 1], t)

\* The throughput run is not in progress.
RunIdle ==
    /\ kind = "download"
    /\ config = [connections |-> 0, chunkSize |-> 1 * MiB, duration |-> 0]
    /\ isCloudflare = FALSE
    /\ hasProgress = FALSE
    /\ aborted = FALSE
    /\ phase = "init"
    /\ startTime = 0
    /\ lastUpdate = 0
    /\ totalBytes = 0
    /\ samples = <<>>
    /\ pc = [i \in Loops |-> "idle"]
    /\ chunkStart = [i \in Loops |-> 0]
    /\ outcome = "pending"
    /\ result = NoResult
    /\ emitted = NoEmit
    /\ delivered = 0
    /\ fixed = FixedIdle

runVars == <<kind, config, isCloudflare, hasProgress, aborted, phase,
             startTime, lastUpdate, totalBytes, samples, pc, chunkStart,
             outcome, result, emitted, delivered, fixed>>

InitProber ==
    /\ RunIdle
    /\ now = StartClock
    /\ prober \in {[ProberIdle EXCEPT !.count = c, !.pc = "init"] :
                      c \in 0..MaxProbes}
    /\ ranker = RankerIdle
    /\ policy = PolicyIdle
    /\ cache = CacheEmpty
    /\ test = TestIdle
    /\ api = ApiIdle
    /\ page = PageIdle
    /\ answers = <<>>

\* The call of measureLatency, up to its first await (lines 43-52).
ProbeStart ==
    /\ prober.pc = "init"
    /\ prober' = ProbeLoopTop([prober EXCEPT !.i = 0, !.samples = <<>>], now)
    /\ UNCHANGED <<runVars, policy, cache, test, now, ranker,
                   api, page, answers>>

\* The probe in flight is answered after rtt ms (lines 53-55), then the code
\* up to the next await.
ProbeRespond ==
    /\ prober.pc = "fetch"
    /\ \E rtt \in Rtts :
         /\ now' = now + rtt
         /\ LET end == now + rtt
                p1 == [prober EXCEPT !.samples = Append(@, end - prober.start),
                                     !.inflight = @ - 1,
                                     !.rtts = Append(@, rtt)]
            IN  prober' = AfterProbe(p1, end)
    /\ UNCHANGED <<runVars, policy, cache, test, ranker,
                   api, page, answers>>

\* The probe in flight is rejected after rtt ms (lines 56-58).
ProbeFail ==
    /\ prober.pc = "fetch"
    /\ \E rtt \in Rtts :
         /\ now' = now + rtt
         /\ LET p1 == [prober EXCEPT !.samples = OnProbeFail(@),
                                     !.inflight = @ - 1,
                                     !.failed = @ + 1]
            IN  prober' = AfterProbe(p1, now + rtt)
    /\ UNCHANGED <<runVars, policy, cache, test, ranker,
                   api, page, answers>>

\* The 50 ms timer fires (line 62), then i++ and the next iteration.
ProbeDelayDone ==
    /\ prober.pc = "delay"
    /\ now' = now + ProbeDelayMs
    /\ prober' = ProbeLoopTop([prober EXCEPT !.i = @ + 1], now + ProbeDelayMs)
    /\ UNCHANGED <<runVars, policy, cache, test, ranker,
                   api, page, answers>>

NextProber ==
    \/ ProbeStart
    \/ ProbeRespond
    \/ ProbeFail
    \/ ProbeDelayDone

ProberSpec == InitProber /\ [][NextProber]_vars

\* The event loop runs the code of measureLatency whenever it can run (the
\* call, the timer); nothing makes the network answer a probe.
ProberFairSpec ==
    ProberSpec /\ WF_vars(ProbeStart) /\ WF_vars(ProbeDelayDone)

\* ---------------------------------------------------- selectBestServer ----
\* Ids of the server list of the application.
ServerIds == {"local-server", "cloudflare-global", "fastly-us", "fastly-eu"}

\* Candidate lists: up to MaxServers servers with distinct ids, in any order.
ServerLists ==
    UNION {{l \in [1..n -> ServerIds] :
               \A a, b \in 1..n : a # b => l[a] # l[b]} : n \in 0..MaxServers}

\* What a run of RankProbeCount probes can end with: the samples of its
\* answered probes.  None; all five at 10, around 30, at 50 ms; two of five;
\* all five at 12 s.
ProbeRuns ==
    {<<>>,
     <<10, 10, 10, 10, 10>>,
     <<30, 10, 50, 30, 70>>,
     <<50, 50, 50, 50, 50>>,
     <<50, 90>>,
     <<12000, 12000, 12000, 12000, 12000>>}

\* Mutant: every server of the list is ranked.
ServersToTestAll(servers) == servers

\* remoteServers, serversToTest (lines 85-88).
ServersToTest(servers) ==
    LET remoteServers == SelectSeq(servers, LAMBDA id : id # "local-server")
    IN  IF Len(remoteServers) > 0 THEN remoteServers ELSE servers

\* The slot of a map callback that has not returned yet.
NoEntry == [server |-> "none", latency |-> [num |-> 0, den |-> 1]]

\* One entry of latencies (lines 91-97): measureLatency threw, or its ping.
LatencyEntry(id, run) ==
    [server |-> id,
     latency |-> IF MeasureSettles(run) = "throw" THEN Quot(Sentinel, 1)
                 ELSE Ping(run)]

\* Mutant: the comparison is reversed.
ComesBeforeDescending(a, b) ==
    b.latency.num * a.latency.den < a.latency.num * b.latency.den

\* The comparator (a, b) => a.latency - b.latency is negative (line 101).
ComesBefore(a, b) ==
    a.latency.num * b.latency.den < b.latency.num * a.latency.den

\* Array.prototype.sort with that comparator: stable, ascending.
RECURSIVE InsertSorted(_, _)
InsertSorted(e, sorted) ==
    IF sorted = <<>> THEN <<e>>
    ELSE IF ComesBefore(e, Head(sorted)) THEN <<e>> \o sorted
    ELSE <<Head(sorted)>> \o InsertSorted(e, Tail(sorted))

RECURSIVE SortLatencies(_)
SortLatencies(l) ==
    IF l = <<>> THEN <<>>
    ELSE InsertSorted(l[Len(l)], SortLatencies(SubSeq(l, 1, Len(l) - 1)))

\* latencies[0].server (line 102): a TypeError when latencies is empty.
SelectSettles(l) == IF l = <<>> THEN "throw" ELSE "result"

InitRanker ==
    /\ RunIdle
    /\ now = StartClock
    /\ prober = ProberIdle
    /\ policy = PolicyIdle
    /\ cache = CacheEmpty
    /\ test = TestIdle
    /\ api = ApiIdle
    /\ page = PageIdle
    /\ answers = <<>>
    /\ ranker \in {[RankerIdle EXCEPT !.servers = l, !.pc = "init"] :
                      l \in ServerLists}

\* The call of selectBestServer up to await Promise.all (lines 85-98): every
\* measureLatency call is started.
RankStart ==
    /\ ranker.pc = "init"
    /\ LET t == ServersToTest(ranker.servers)
       IN  ranker' = [ranker EXCEPT
                        !.pc = "probing",
                        !.toTest = t,
                        !.settled = {},
                        !.latencies = [k \in 1..Len(t) |-> NoEntry],
                        !.runs = [k \in 1..Len(t) |-> <<>>],
                        !.probed = {t[k] : k \in 1..Len(t)}]
    /\ UNCHANGED <<runVars, policy, cache, test, now, prober,
                   api, page, answers>>

\* The probe run of the k-th ranked server ends (lines 92-97).
RankRunEnds(k) ==
    /\ ranker.pc = "probing"
    /\ k \in 1..Len(ranker.toTest)
    /\ k \notin ranker.settled
    /\ \E run \in ProbeRuns :
         ranker' = [ranker EXCEPT
                      !.settled = @ \cup {k},
                      !.latencies[k] = LatencyEntry(ranker.toTest[k], run),
                      !.runs[k] = run]
    /\ UNCHANGED <<runVars, policy, cache, test, now, prober,
                   api, page, answers>>

\* Promise.all has resolved: sort and return (lines 101-102).
RankFinish ==
    /\ ranker.pc = "probing"
    /\ \A k \in 1..Len(ranker.toTest) : k \in ranker.settled
    /\ LET sorted == SortLatencies(ranker.latencies)
       IN  ranker' = [ranker EXCEPT
                        !.pc = "returned",
                        !.latencies = sorted,
                        !.outcome = SelectSettles(sorted),
                        !.best = IF SelectSettles(sorted) = "result"
                                 THEN sorted[1].server ELSE "none"]
    /\ UNCHANGED <<runVars, policy, cache, test, now, prober,
                   api, page, answers>>

NextRanker ==
    \/ RankStart
    \/ \E k \in 1..MaxServers : RankRunEnds(k)
    \/ RankFinish

RankerSpec == InitRanker /\ [][NextRanker]_vars

\* ---------------------------------- successive upload runs and the cache ----
InitCache ==
    /\ RunIdle
    /\ now = StartClock
    /\ prober = ProberIdle
    /\ ranker = RankerIdle
    /\ policy = PolicyIdle
    /\ cache = CacheEmpty
    /\ test = TestIdle
    /\ api = ApiIdle
    /\ page = PageIdle
    /\ answers = <<>>

\* One more call of measureUploadSpeed, with chunk size z: its prologue
\* (lines 219-234), the only part of a run that reads or writes the cache.
UploadRunStarts(z) ==
    /\ cache.generated[z] < MaxRegens
    /\ cache' = PrepareUpload(cache, z)
    /\ UNCHANGED <<runVars, now, prober, ranker, policy, test,
                   api, page, answers>>

NextCache == \E z \in UploadSizes : UploadRunStarts(z)

CacheSpec == InitCache /\ [][NextCache]_vars

\* ------------------------------------------------------ parameter policy ----
\* Estimates the policy is applied to, in hundredths of a Mbps: both sides of
\* every threshold, and the ends of [0, 10000).
Estimates ==
    {0, 1, 999, 1000, 1001, 4999, 5000, 5001, 9999, 10000, 10001,
     24999, 25000, 25001, 999999}

\* The number h / 100.
Estimate(h) == Quot(h, 100)

\* q < n for a number q and an integer n; false for NaN and Infinity.
Lt(q, n) == q.den # 0 /\ q.num < n * q.den

\* Mutant: the thresholds belong to the lower tier.
GetOptimalConnectionsInclusive(estimatedMbps) ==
    IF estimatedMbps.den # 0 /\ estimatedMbps.num <= 10 * estimatedMbps.den
    THEN 4
    ELSE IF Lt(estimatedMbps, 50) THEN 6
    ELSE IF Lt(estimatedMbps, 100) THEN 10
    ELSE IF Lt(estimatedMbps, 250) THEN 14
    ELSE 18

\* getOptimalConnections (lines 323-329)
GetOptimalConnections(estimatedMbps) ==
    IF Lt(estimatedMbps, 10) THEN 4
    ELSE IF Lt(estimatedMbps, 50) THEN 6
    ELSE IF Lt(estimatedMbps, 100) THEN 10
    ELSE IF Lt(estimatedMbps, 250) THEN 14
    ELSE 18

\* Mutant: a fifth tier from 250 Mbps on, and 4 MiB below it.
GetChunkSizeFiveTiers(estimatedMbps, type) ==
    IF type = "download"
    THEN IF Lt(estimatedMbps, 10) THEN 1 * MiB
         ELSE IF Lt(estimatedMbps, 50) THEN 2 * MiB
         ELSE IF Lt(estimatedMbps, 100) THEN 3 * MiB
         ELSE IF Lt(estimatedMbps, 250) THEN 4 * MiB
         ELSE 5 * MiB
    ELSE IF Lt(estimatedMbps, 10) THEN 512 * 1024
         ELSE IF Lt(estimatedMbps, 50) THEN 1 * MiB
         ELSE IF Lt(estimatedMbps, 100) THEN (3 * MiB) \div 2
         ELSE 2 * MiB

\* Mutant: the slowest upload tier uses the download size.
GetChunkSizeEqualAtLowEnd(estimatedMbps, type) ==
    IF Lt(estimatedMbps, 10) THEN 1 * MiB
    ELSE IF type = "download"
    THEN IF Lt(estimatedMbps, 50) THEN 2 * MiB
         ELSE IF Lt(estimatedMbps, 100) THEN 3 * MiB
         ELSE 5 * MiB
    ELSE IF Lt(estimatedMbps, 50) THEN 1 * MiB
         ELSE IF Lt(estimatedMbps, 100) THEN (3 * MiB) \div 2
         ELSE 2 * MiB

\* getChunkSize (lines 333-346); 1.5 * 1024 * 1024 is 3 MiB / 2.
GetChunkSize(estimatedMbps, type) ==
    IF type = "download"
    THEN IF Lt(estimatedMbps, 10) THEN 1 * MiB
         ELSE IF Lt(estimatedMbps, 50) THEN 2 * MiB
         ELSE IF Lt(estimatedMbps, 100) THEN 3 * MiB
         ELSE 5 * MiB
    ELSE IF Lt(estimatedMbps, 10) THEN 512 * 1024
         ELSE IF Lt(estimatedMbps, 50) THEN 1 * MiB
         ELSE IF Lt(estimatedMbps, 100) THEN (3 * MiB) \div 2
         ELSE 2 * MiB

InitPolicy ==
    /\ RunIdle
    /\ now = StartClock
    /\ prober = ProberIdle
    /\ ranker = RankerIdle
    /\ cache = CacheEmpty
    /\ test = TestIdle
    /\ api = ApiIdle
    /\ page = PageIdle
    /\ answers = <<>>
    /\ policy \in {[PolicyIdle EXCEPT !.a = x, !.b = y, !.pc = "init"] :
                      x \in Estimates, y \in Estimates}

\* The policy is applied to both estimates, for both directions.
PolicyCall ==
    /\ policy.pc = "init"
    /\ LET ea == Estimate(policy.a)
           eb == Estimate(policy.b)
       IN  policy' = [policy EXCEPT
                        !.pc = "called",
                        !.connections = <<GetOptimalConnections(ea),
                                          GetOptimalConnections(eb)>>,
                        !.download = <<GetChunkSize(ea, "download"),
                                       GetChunkSize(eb, "download")>>,
                        !.upload = <<GetChunkSize(ea, "upload"),
                                     GetChunkSize(eb, "upload")>>]
    /\ UNCHANGED <<runVars, now, prober, ranker, cache, test,
                   api, page, answers>>

NextPolicy == PolicyCall

PolicySpec == InitPolicy /\ [][NextPolicy]_vars

\* ------------------------------------------------ startTest / cancelTest ----
\* Servers selectBestServer can return to the page.
TestServers == {"cloudflare-global", "local-server"}

\* Throughput results, in hundredths of a Mbps: 5, 30 and 300 Mbps.
TestMbps == {500, 3000, 30000}

\* What a measure* call can return to the page: a measurement of h / 100
\* Mbps over 10 s; a run whose transfers all failed (no sample, no byte,
\* 0 Mbps); a run that moved so few bytes that its mbps rounds to 0.
SpeedResults ==
    {[mbps |-> Estimate(h), samples |-> <<Estimate(h)>>,
      duration |-> 10000, bytesTransferred |-> h * 12500] : h \in TestMbps}
    \cup {[mbps |-> Estimate(0), samples |-> <<>>,
            duration |-> 10000, bytesTransferred |-> 0],
           [mbps |-> Estimate(0), samples |-> <<Estimate(0)>>,
            duration |-> 10000, bytesTransferred |-> ErrorBodyLen]}

\* What measureLatency(..., 20) can return to the page.
LatencyResults == {MakeLatency(<<10, 30, 10>>)}

\* The fixed configuration of the pre-test (line 213 of part_005).
PreTestConfig == [connections |-> 4, chunkSize |-> 2 * MiB, duration |-> 3]

\* Mutant: the main runs always use 8 connections.
MainConnectionsFixed(mbps) == MinMainConnections

\* Math.max(8, getOptimalConnections(preTest.mbps)) (line 223)
MainConnections(mbps) == Max(MinMainConnections, GetOptimalConnections(mbps))

\* Mutant: the latency run is made under the phase 'download'.
PhaseOnCallSkipsPing(stage) ==
    CASE stage = "ranking" -> "selecting"
      [] stage = "latency" -> "download"
      [] stage = "pretest" -> "download"
      [] stage = "upload" -> "upload"

\* The phase startTest sets before it calls a stage (lines 189, 198, 209,
\* 250); the main download is called under the phase of the pre-test.
PhaseOnCall(stage) ==
    CASE stage = "ranking" -> "selecting"
      [] stage = "latency" -> "ping"
      [] stage = "pretest" -> "download"
      [] stage = "upload" -> "upload"

\* setState(prev => ({ ...prev, phase: ph }))
SetPhase(t, ph) == [t EXCEPT !.phase = ph, !.phases = Append(@, ph)]

Called(t, stage) ==
    [t EXCEPT !.pc = stage, !.log = Append(@, [ev |-> "call", stage |-> stage])]

ReturnedFrom(t, stage) ==
    [t EXCEPT !.log = Append(@, [ev |-> "return", stage |-> stage])]

\* The body of POST /api/results (lines 281-289); Math.round(x * 100) / 100.
SaveBody(t) ==
    [serverId |-> t.server,
     ping |-> ToFixed2(t.ping),
     downloadMbps |-> ToFixed2(t.downloadResult.mbps),
     uploadMbps |-> ToFixed2(t.uploadResult.mbps)]

\* How the POST of the result can settle: answered 2xx, answered with
\* another status (400, 413, 429, 500), or the fetch rejects.
SaveOutcomes == {"ok", "rejected", "failed"}

\* Mutant: a submission that fails is rethrown to the outer catch.
PhaseAfterSaveFailIsError(o) == IF o = "failed" THEN "error" ELSE "complete"

\* The phase set once the POST has settled: !saveResponse.ok only warns
\* (lines 291-293), a rejection is caught and logged (lines 294-297), then
\* line 314 sets 'complete'.
PhaseAfterSave(o) == "complete"

InitTest ==
    /\ RunIdle
    /\ now = StartClock
    /\ prober = ProberIdle
    /\ ranker = RankerIdle
    /\ policy = PolicyIdle
    /\ cache = CacheEmpty
    /\ test = TestIdle
    /\ api = ApiIdle
    /\ page = PageIdle
    /\ answers = <<>>

\* startTest up to await fetch('/api/servers') (lines 185-191).
TestStart ==
    /\ test.pc = "idle"
    /\ test' = [SetPhase(test, PhaseOnCall("ranking")) EXCEPT
                  !.pc = "servers", !.controller = "live"]
    /\ UNCHANGED <<runVars, now, prober, ranker, policy, cache,
                   api, page, answers>>

\* The server list has arrived: selectBestServer is called (lines 191-193).
TestServersArrive ==
    /\ test.pc = "servers"
    /\ test' = Called(test, "ranking")
    /\ UNCHANGED <<runVars, now, prober, ranker, policy, cache,
                   api, page, answers>>

\* selectBestServer returns: measureLatency(best, 20) (lines 193-199).
TestRanked ==
    /\ test.pc = "ranking"
    /\ \E best \in TestServers :
         test' = [Called(SetPhase(ReturnedFrom(test, "ranking"),
                                  PhaseOnCall("latency")), "latency")
                  EXCEPT !.server = best, !.probed = best,
                         !.probeCount = FullProbeCount]
    /\ UNCHANGED <<runVars, now, prober, ranker, policy, cache,
                   api, page, answers>>

\* measureLatency returns: the pre-test is called (lines 199-216).
TestLatencyReturns ==
    /\ test.pc = "latency"
    /\ \E lat \in LatencyResults :
         test' = [Called(SetPhase(ReturnedFrom(test, "latency"),
                                  PhaseOnCall("pretest")), "pretest")
                  EXCEPT !.ping = lat.ping, !.pretestConfig = PreTestConfig]
    /\ UNCHANGED <<runVars, now, prober, ranker, policy, cache,
                   api, page, answers>>

\* The pre-test returns: the main download is called (lines 216-241).
TestPreTestReturns ==
    /\ test.pc = "pretest"
    /\ \E r \in SpeedResults :
         test' = [Called(ReturnedFrom(test, "pretest"), "download")
                  EXCEPT !.preTest = r,
                         !.downloadConfig =
                            [connections |-> MainConnections(r.mbps),
                             chunkSize |-> GetChunkSize(r.mbps, "download"),
                             duration |-> MainDuration]]
    /\ UNCHANGED <<runVars, now, prober, ranker, policy, cache,
                   api, page, answers>>

\* The main download returns: the upload is called with the same
\* `connections` (lines 241-266).
TestDownloadReturns ==
    /\ test.pc = "download"
    /\ \E r \in SpeedResults :
         test' = [Called(SetPhase(ReturnedFrom(test, "download"),
                                  PhaseOnCall("upload")), "upload")
                  EXCEPT !.downloadResult = r,
                         !.downloadSpeed = r.mbps,
                         !.uploadConfig =
                            [connections |-> test.downloadConfig.connections,
                             chunkSize |-> GetChunkSize(r.mbps, "upload"),
                             duration |-> MainDuration]]
    /\ UNCHANGED <<runVars, now, prober, ranker, policy, cache,
                   api, page, answers>>

\* The upload returns: the result is posted (lines 266-291).
TestUploadReturns ==
    /\ test.pc = "upload"
    /\ \E r \in SpeedResults :
         LET t == [ReturnedFrom(test, "upload") EXCEPT
                     !.uploadResult = r, !.uploadSpeed = r.mbps]
         IN  test' = [t EXCEPT !.pc = "saving",
                               !.saveAttempts = @ + 1,
                               !.submitted = SaveBody(t),
                               !.savedAfterCancel = t.cancelled]
    /\ UNCHANGED <<runVars, now, prober, ranker, policy, cache,
                   api, page, answers>>

\* The POST is answered (with any status) or fails: both are only logged;
\* then 'complete' and the finally block (lines 291-318, 347-349).
TestSaveSettles ==
    /\ test.pc = "saving"
    /\ \E o \in SaveOutcomes :
         test' = [SetPhase(test, PhaseAfterSave(o)) EXCEPT
                    !.pc = "done", !.controller = "none", !.saved = o,
                    !.failed = (PhaseAfterSave(o) = "error")]
    /\ UNCHANGED <<runVars, now, prober, ranker, policy, cache,
                   api, page, answers>>

\* An await of the first stages rejects: fetch('/api/servers') or its json(),
\* selectBestServer, measureLatency (which throws when every probe fails).
\* None of them is given the signal, so the error is never an AbortError:
\* the catch block sets 'error' (lines 319-349).
TestStageThrows ==
    /\ test.pc \in {"servers", "ranking", "latency"}
    /\ test' = [SetPhase(test, "error") EXCEPT
                  !.pc = "done", !.controller = "none", !.failed = TRUE]
    /\ UNCHANGED <<runVars, now, prober, ranker, policy, cache,
                   api, page, answers>>

\* cancelTest (lines 352-357), offered while state.phase is a testing phase.
TestCancel ==
    /\ test.phase \in {"selecting", "ping", "download", "upload"}
    /\ test' = [SetPhase(test, "idle") EXCEPT
                  !.controller = IF test.controller = "none" THEN "none"
                                 ELSE "aborted",
                  !.cancelled = TRUE]
    /\ UNCHANGED <<runVars, now, prober, ranker, policy, cache,
                   api, page, answers>>

NextTest ==
    \/ TestStart
    \/ TestServersArrive
    \/ TestRanked
    \/ TestLatencyReturns
    \/ TestPreTestReturns
    \/ TestDownloadReturns
    \/ TestUploadReturns
    \/ TestSaveSettles
    \/ TestStageThrows
    \/ TestCancel

TestSpec == InitTest /\ [][NextTest]_vars

\* The POST of the result settles: the browser ends every request with a
\* response or a network error.
TestFairSpec == TestSpec /\ WF_vars(TestSaveSettles)

\* --------------------------------------------- /api/results: POST, DELETE ----
\* Date.now() readings of the server (ms after start-up): two requests in
\* the same millisecond, the last millisecond of a 60 s window and the first
\* after it, the same for a 5 min window.
ApiClock == {StartClock + d : d \in {0, 60000, 60001, 300000, 300001}}

\* Defaults of checkRateLimit (line 7) and the arguments of DELETE (line 150)
PostMaxRequests == 5
PostWindowMs == 60000
DeleteMaxRequests == 2
DeleteWindowMs == 300000
\* Limits of the POST handler (lines 51, 72, 80-83)
MaxContentLength == 10240
MaxServerIdLength == 100
MaxPing == 10000
MaxJitter == 1000
MaxMbps == 100000

\* checkRateLimit(ip, maxRequests, windowMs) at Date.now() = t (lines 7-22):
\* whether the request passes, and rateLimitMap afterwards.
CheckRateLimit(m, ip, maxRequests, windowMs, t) ==
    LET record == m[ip]
    IN  IF record = NoRecord \/ t > record.resetTime
        THEN [ok |-> TRUE,
              map |-> [m EXCEPT ![ip] = [count |-> 1,
                                         resetTime |-> t + windowMs]]]
        ELSE IF record.count >= maxRequests
        THEN [ok |-> FALSE, map |-> m]
        ELSE [ok |-> TRUE, map |-> [m EXCEPT ![ip].count = @ + 1]]

\* The callback of setInterval (lines 25-32).
Cleanup(m, t) ==
    [ip \in Ips |-> IF m[ip] # NoRecord /\ t > m[ip].resetTime
                    THEN NoRecord ELSE m[ip]]

\* JSON values of a request body: a number, a string, or a missing field.
Num(v) == [t |-> "number", v |-> v]
Text == [t |-> "string", v |-> 0]
Missing == [t |-> "undefined", v |-> 0]

\* Characters the class [a-zA-Z0-9-_] of line 72 contains.
Letters ==
    {"a", "b", "c", "d", "e", "f", "g", "h", "i", "j", "k", "l", "m", "n",
     "o", "p", "q", "r", "s", "t", "u", "v", "w", "x", "y", "z",
     "A", "B", "C", "D", "E", "F", "G", "H", "I", "J", "K", "L", "M", "N",
     "O", "P", "Q", "R", "S", "T", "U", "V", "W", "X", "Y", "Z"}
Digits == {"0", "1", "2", "3", "4", "5", "6", "7", "8", "9"}
IdClass == Letters \cup Digits \cup {"-", "_"}

\* /^[a-zA-Z0-9-_]+$/.test(id): id is a sequence of characters.
MatchesIdPattern(id) ==
    /\ Len(id) >= 1
    /\ \A k \in 1..Len(id) : id[k] \in IdClass

\* Server ids a client can send: the id of a listed server, ids with an
\* underscore, a space, a quote; the empty string; ids of 100 and 101
\* characters.
ResultServerIds ==
    {<<"e", "u", "-", "1">>,
     <<"e", "u", "_", "1">>,
     <<"e", "u", " ", "1">>,
     <<"'", ";", "-", "-">>,
     <<>>,
     [k \in 1..MaxServerIdLength |-> "a"],
     [k \in 1..(MaxServerIdLength + 1) |-> "a"]}

\* A result as startTest posts it.
BaseBody ==
    [serverId |-> <<"e", "u", "-", "1">>,
     ping |-> Num(25), jitter |-> Num(3),
     downloadMbps |-> Num(94), uploadMbps |-> Num(18),
     userAgent |-> Text]

\* Bodies a client can send: BaseBody with one field replaced, and the body
\* with every number at its upper limit.
ResultBodies ==
    {[BaseBody EXCEPT !.serverId = id] : id \in ResultServerIds}
    \cup {[BaseBody EXCEPT !.ping = v] :
             v \in {Num(0 - 1), Num(MaxPing + 1), Text, Missing}}
    \cup {[BaseBody EXCEPT !.jitter = v] :
             v \in {Num(0 - 1), Num(MaxJitter + 1), Text}}
    \cup {[BaseBody EXCEPT !.downloadMbps = v] :
             v \in {Num(0 - 1), Num(MaxMbps + 1), Missing}}
    \cup {[BaseBody EXCEPT !.uploadMbps = v] :
             v \in {Num(0 - 1), Num(MaxMbps + 1), Text}}
    \cup {[BaseBody EXCEPT !.userAgent = Missing]}
    \cup {[BaseBody EXCEPT !.ping = Num(MaxPing), !.jitter = Num(MaxJitter),
                           !.downloadMbps = Num(MaxMbps),
                           !.uploadMbps = Num(MaxMbps)]}

\* POST requests: a body that parses to an object, under the size limit; a
\* request whose content-length is over the limit; a body that is not JSON.
PostRequests ==
    {[contentLength |-> 300, parses |-> TRUE, body |-> b] : b \in ResultBodies}
    \cup {[contentLength |-> MaxContentLength + 1, parses |-> TRUE,
            body |-> BaseBody],
           [contentLength |-> 300, parses |-> FALSE, body |-> BaseBody]}

\* Lines 61-64: a required field is missing or of the wrong type.
FieldsInvalid(body) ==
    \/ body.serverId = <<>>
    \/ body.ping.t # "number"
    \/ body.jitter.t # "number"
    \/ body.downloadMbps.t # "number"
    \/ body.uploadMbps.t # "number"

\* Line 72
ServerIdInvalid(body) ==
    \/ ~MatchesIdPattern(body.serverId)
    \/ Len(body.serverId) > MaxServerIdLength

\* Lines 80-83
OutOfRange(body) ==
    \/ body.ping.v < 0 \/ body.ping.v > MaxPing
    \/ body.jitter.v < 0 \/ body.jitter.v > MaxJitter
    \/ body.downloadMbps.v < 0 \/ body.downloadMbps.v > MaxMbps
    \/ body.uploadMbps.v < 0 \/ body.uploadMbps.v > MaxMbps

\* hashIP (part_009, lines 34-36): the SHA-256 digest of the address.
HashIP(ip) == <<"sha256", ip>>

\* The row saveTestResult inserts (part_009, lines 65-77), without its id
\* and timestamp.
Row(ip, body, t) ==
    [ipHash |-> HashIP(ip), serverId |-> body.serverId,
     ping |-> body.ping.v, jitter |-> body.jitter.v,
     downloadMbps |-> body.downloadMbps.v,
     uploadMbps |-> body.uploadMbps.v]

\* The status POST answers to a request that passed the limiter (lines
\* 49-111).  saveTestResult throws on a missing userAgent before it inserts
\* (part_009, lines 55-56); the handler's catch answers 500, as it does when
\* request.json() throws.
PostStatus(req) ==
    IF req.contentLength > MaxContentLength THEN 413
    ELSE IF ~req.parses THEN 500
    ELSE IF FieldsInvalid(req.body) THEN 400
    ELSE IF ServerIdInvalid(req.body) THEN 400
    ELSE IF OutOfRange(req.body) THEN 400
    ELSE IF req.body.userAgent.t # "string" THEN 500
    ELSE 200

\* The times of the ascending sequence h that are at most w ms before t.
RECURSIVE Within(_, _, _)
Within(h, t, w) ==
    IF h = <<>> THEN <<>>
    ELSE IF t - Head(h) <= w THEN h
    ELSE Within(Tail(h), t, w)

InitApi ==
    /\ RunIdle
    /\ now = StartClock
    /\ prober = ProberIdle
    /\ ranker = RankerIdle
    /\ policy = PolicyIdle
    /\ cache = CacheEmpty
    /\ test = TestIdle
    /\ api = ApiIdle
    /\ page = PageIdle
    /\ answers = <<>>

\* Time passes on the server.
ApiTick ==
    /\ \E t \in ApiClock : t > now /\ now' = t
    /\ UNCHANGED <<runVars, prober, ranker, policy, cache, test, api, page, answers>>

\* POST /api/results from client ip (lines 34-112).
ApiPost(ip, req) ==
    LET rl == CheckRateLimit(api.rateLimitMap, ip,
                             PostMaxRequests, PostWindowMs, now)
        status == IF rl.ok THEN PostStatus(req) ELSE 429
        saves == status = 200
    IN  /\ saves => Len(api.store) < MaxStored
        /\ api' = [api EXCEPT
                     !.rateLimitMap = rl.map,
                     !.store = IF saves
                               THEN Append(@, Row(ip, req.body, now))
                               ELSE @,
                     !.posted[ip] = IF rl.ok
                                    THEN Append(Within(@, now, PostWindowMs),
                                                now)
                                    ELSE @,
                     !.last = [method |-> "POST", ip |-> ip,
                               status |-> status, at |-> now]]
        /\ UNCHANGED <<runVars, now, prober, ranker, policy, cache, test,
                       page, answers>>

\* DELETE /api/results from client ip (lines 143-174).
ApiDelete(ip) ==
    LET rl == CheckRateLimit(api.rateLimitMap, ip,
                             DeleteMaxRequests, DeleteWindowMs, now)
    IN  /\ api' = [api EXCEPT
                     !.rateLimitMap = rl.map,
                     !.store = IF rl.ok THEN <<>> ELSE @,
                     !.deleted[ip] = IF rl.ok
                                     THEN Append(Within(@, now,
                                                        DeleteWindowMs), now)
                                     ELSE @,
                     !.last = [method |-> "DELETE", ip |-> ip,
                               status |-> IF rl.ok THEN 200 ELSE 429,
                               at |-> now]]
        /\ UNCHANGED <<runVars, now, prober, ranker, policy, cache, test,
                       page, answers>>

\* The periodic clean-up of rateLimitMap (lines 25-32).
ApiCleanup ==
    /\ api.rateLimitMap # Cleanup(api.rateLimitMap, now)
    /\ api' = [api EXCEPT !.rateLimitMap = Cleanup(@, now)]
    /\ UNCHANGED <<runVars, now, prober, ranker, policy, cache, test, page, answers>>

NextApi ==
    \/ ApiTick
    \/ \E ip \in Ips, req \in PostRequests : ApiPost(ip, req)
    \/ \E ip \in Ips : ApiDelete(ip)
    \/ ApiCleanup

ApiSpec == InitApi /\ [][NextApi]_vars

\* ------------------------------- the page under several startTest calls ----
\* The awaits of startTest in order; "done" after its finally block.
StageAfter(st) ==
    CASE st = "servers" -> "ranking"
      [] st = "ranking" -> "latency"
      [] st = "latency" -> "pretest"
      [] st = "pretest" -> "download"
      [] st = "download" -> "upload"
      [] st = "upload" -> "saving"

\* The calls that are given abortControllerRef.current.signal, read when the
\* call is made (lines 216, 239, 264).
ReadsSignal(st) == st \in {"pretest", "download", "upload"}

\* The phase startTest sets on its way to the call of stage st (lines 198,
\* 209, 249); "same" where it sets none.
PhaseBefore(st) ==
    CASE st = "latency" -> "ping"
      [] st = "pretest" -> "download"
      [] st = "upload" -> "upload"
      [] OTHER -> "same"

Running(k) == page.pc[k] \notin {"idle", "done"}

InitPage ==
    /\ RunIdle
    /\ now = StartClock
    /\ prober = ProberIdle
    /\ ranker = RankerIdle
    /\ policy = PolicyIdle
    /\ cache = CacheEmpty
    /\ test = TestIdle
    /\ api = ApiIdle
    /\ page = PageIdle
    /\ answers = <<>>

\* The GO button (rendered when state.phase is 'idle', line 646) or Space /
\* Enter (line 95): startTest up to await fetch('/api/servers'), lines
\* 185-191.  Invocations are numbered in the order they are made.
PageStart(k) ==
    /\ page.phase = "idle"
    /\ page.pc[k] = "idle"
    /\ \A j \in Tests : j < k => page.pc[j] # "idle"
    /\ page' = [page EXCEPT !.phase = "selecting", !.ref = k,
                            !.pc[k] = "servers"]
    /\ UNCHANGED <<runVars, now, prober, ranker, policy, cache, test, api,
                   answers>>

\* The catch and finally blocks of startTest for an error that is not an
\* AbortError (lines 319-349).
PageCatch(k) ==
    [page EXCEPT !.phase = "error", !.ref = 0, !.pc[k] = "done",
                 !.signal[k] = 0]

\* The call invocation k awaits returns and the invocation runs on to its
\* next await.  Reading .signal of a null abortControllerRef.current throws
\* a TypeError, which the catch block turns into 'error'.
PageAdvance(k) ==
    /\ page.pc[k] \in {"servers", "ranking", "latency", "pretest",
                       "download", "upload"}
    /\ LET nxt == StageAfter(page.pc[k])
       IN  page' = IF ReadsSignal(nxt) /\ page.ref = 0
                   THEN PageCatch(k)
                   ELSE [page EXCEPT
                           !.phase = IF PhaseBefore(nxt) = "same" THEN @
                                     ELSE PhaseBefore(nxt),
                           !.pc[k] = nxt,
                           !.signal[k] = IF ReadsSignal(nxt) THEN page.ref
                                         ELSE 0]
    /\ UNCHANGED <<runVars, now, prober, ranker, policy, cache, test, api,
                   answers>>

\* The POST of the result settles: 'complete', then finally (lines 291-318,
\* 347-349).
PageFinish(k) ==
    /\ page.pc[k] = "saving"
    /\ page' = [page EXCEPT !.phase = PhaseAfterSave("ok"), !.ref = 0,
                            !.pc[k] = "done"]
    /\ UNCHANGED <<runVars, now, prober, ranker, policy, cache, test, api,
                   answers>>

\* fetch('/api/servers'), selectBestServer or measureLatency rejects.
PageStageThrows(k) ==
    /\ page.pc[k] \in {"servers", "ranking", "latency"}
    /\ page' = PageCatch(k)
    /\ UNCHANGED <<runVars, now, prober, ranker, policy, cache, test, api,
                   answers>>

\* cancelTest (lines 352-357): the Cancel button (line 671) or Escape (line
\* 100), offered in the testing phases.
PageCancel ==
    /\ page.phase \in {"selecting", "ping", "download", "upload"}
    /\ page' = [page EXCEPT
                  !.phase = "idle",
                  !.abortedControllers =
                      IF page.ref # 0 THEN @ \cup {page.ref} ELSE @,
                  !.cancelled = @ \cup {k \in Tests : Running(k)}]
    /\ UNCHANGED <<runVars, now, prober, ranker, policy, cache, test, api,
                   answers>>

\* resetTest (lines 359-375), offered in 'complete' and 'error'.
PageReset ==
    /\ page.phase \in {"complete", "error"}
    /\ page' = [page EXCEPT !.phase = "idle"]
    /\ UNCHANGED <<runVars, now, prober, ranker, policy, cache, test, api,
                   answers>>

NextPage ==
    \/ \E k \in Tests : PageStart(k)
    \/ \E k \in Tests : PageAdvance(k)
    \/ \E k \in Tests : PageFinish(k)
    \/ \E k \in Tests : PageStageThrows(k)
    \/ PageCancel
    \/ PageReset

PageSpec == InitPage /\ [][NextPage]_vars

\* ------------------------------ the run against the routes' own answers ----
\* What the routes of this repository answer to one transfer of the engine.
\* GET /api/download: the requested bytes, or its 500 JSON error body.
\* POST /api/upload: its acknowledgement {bytesReceived, duration, mbps}, or
\* one of its error bodies {error}, which have no bytesReceived field: 429
\* from its limiter of 20 requests a minute, 500 when reading the body fails.
RouteAnswers(k, chunkSize) ==
    IF k = "download"
    THEN {[status |-> 200, byteLength |-> chunkSize],
          [status |-> 500, byteLength |-> ErrorBodyLen]}
    ELSE {[status |-> 200, bytesReceived |-> chunkSize],
          [status |-> 429, bytesReceived |-> NaN],
          [status |-> 500, bytesReceived |-> NaN]}

\* Connection counts of the runs followed against the routes: a single loop,
\* and two loops whose transfers interleave.
StatusConnections == {1, 2}

\* A run of positive duration with at least one connection, not cancelled.
InitStatus ==
    /\ kind \in {"download", "upload"}
    /\ config \in [connections : StatusConnections,
                   chunkSize : ChunkSizes,
                   duration : {d \in Durations : d > 0}]
    /\ isCloudflare = FALSE
    /\ hasProgress \in BOOLEAN
    /\ aborted = FALSE
    /\ now = StartClock
    /\ phase = "init"
    /\ startTime = 0
    /\ lastUpdate = 0
    /\ totalBytes = 0
    /\ samples = <<>>
    /\ pc = [i \in Loops |-> "idle"]
    /\ chunkStart = [i \in Loops |-> 0]
    /\ outcome = "pending"
    /\ result = NoResult
    /\ emitted = NoEmit
    /\ delivered = 0
    /\ fixed = FixedIdle
    /\ prober = ProberIdle
    /\ ranker = RankerIdle
    /\ policy = PolicyIdle
    /\ cache = CacheEmpty
    /\ test = TestIdle
    /\ api = ApiIdle
    /\ page = PageIdle
    /\ answers = <<>>

\* The body of loop i's transfer arrives, with any answer of the route.
StatusBody(i) ==
    /\ phase = "running"
    /\ pc[i] = "body"
    /\ Len(samples) < MaxChunks
    /\ \E resp \in RouteAnswers(kind, config.chunkSize) :
         /\ CompleteChunk(i, resp)
         /\ answers' = Append(answers, resp.status)
    /\ UNCHANGED <<kind, config, isCloudflare, hasProgress, aborted, now,
                   startTime, fixed, prober, ranker,
                   policy, cache, test,
                   api, page>>

NextStatus ==
    \/ Start
    \/ Tick
    \/ \E i \in Loops : FetchResolve(i)
    \/ \E i \in Loops : StatusBody(i)
    \/ \E i \in Loops : CallFail(i)

StatusSpec == InitStatus /\ [][NextStatus]_vars

\* Time passes, a response head that is on its way arrives, and a call in
\* flight completes or fails.
StatusFairSpec ==
    /\ StatusSpec
    /\ WF_vars(Tick)
    /\ \A i \in Loops : WF_vars(FetchResolve(i))
    /\ \A i \in Loops : WF_vars(StatusBody(i) \/ CallFail(i))


\* ============================================================== claims ====
Elapsed == now - startTime
BudgetMs == config.duration * 1000
Returned == phase = "returned"

\* Loop i issues a transfer in this step: it enters "fetch", or it is in
\* "fetch" again with a later chunkStart.
Issues(i) ==
    /\ pc'[i] = "fetch"
    /\ pc[i] # "fetch" \/ chunkStart'[i] # chunkStart[i]

\* r is q rounded to two decimals: a multiple of 1/100 no further than 1/200
\* from q (NaN and Infinity have no decimals to round).
RoundedTo2(r, q) ==
    IF q.den = 0 THEN r = q
    ELSE /\ r.den > 0
         /\ 100 % r.den = 0
         /\ LET h == r.num * (100 \div r.den)
                d == 100 * q.num - h * q.den
            IN  2 * d <= q.den /\ 2 * (0 - d) <= q.den

C2_CounterIsSum ==
    /\ totalBytes = delivered
    /\ Returned => result.bytesTransferred = delivered

C3_IssueOnlyWithinBudget ==
    [][\A i \in Loops :
          Issues(i) => ~aborted' /\ now' - startTime' < config'.duration * 1000]_vars

\* C3 witness: the budget has expired, loop 1 has returned without issuing
\* again after a completed chunk, loop 2 still has its call in flight.
C3_Witness ==
    /\ phase = "running"
    /\ ~aborted
    /\ Elapsed >= BudgetMs
    /\ pc[1] = "done"
    /\ InFlight(2)
    /\ Len(samples) >= 1

\* C4: once the signal is aborted during a run, every call in flight is
\* rejected (the catch block of its loop is queued to run), every further
\* step of the run is a loop stopping, with no chunk completed and no
\* transfer issued, and the run has returned as soon as no loop is left: it
\* returns after at most one step per loop.
C4_Rejected ==
    (aborted /\ phase = "running") =>
        /\ \E i \in Loops : InFlight(i)
        /\ \A i \in Loops : InFlight(i) => Rejected(i)

C4_LoopStops ==
    (aborted /\ phase = "running") =>
        /\ \E i \in Loops : InFlight(i) /\ pc'[i] = "done"
        /\ \A i \in Loops : ~Issues(i) /\ (pc'[i] # pc[i] => pc'[i] = "done")
        /\ samples' = samples
        /\ (\A i \in Loops : ~InFlight(i))' => Returned'

C4_AbortStopsRun ==
    [] C4_Rejected /\ [][C4_LoopStops]_vars

\* C4 witness: a run aborted in flight, with both of its loops awaiting a
\* call at that moment, has returned.
C4_Witness ==
    /\ Returned
    /\ aborted
    /\ config.connections = 2
    /\ Len(result.samples) = 1
    /\ Elapsed > 0
    /\ Elapsed < BudgetMs

\* C5: after the signal has been aborted the observer is not invoked again.
C5_NoProgressAfterAbort ==
    [][aborted => emitted' = emitted]_vars

\* C5 witness: the signal is aborted while a loop is still receiving a body
\* and after the observer has been invoked.
C5_Witness ==
    /\ aborted
    /\ phase = "running"
    /\ hasProgress
    /\ emitted.n >= 1
    /\ \E i \in Loops : pc[i] = "body"

\* A run with at least one loop that returned some time after its start and
\* before its budget expired: only the abort signal ends such a run.
EndedByAbort ==
    /\ Returned
    /\ aborted
    /\ config.connections > 0
    /\ Elapsed > 0
    /\ Elapsed < BudgetMs

\* C6: a run that ends because its signal was aborted settles as a
\* cancellation, neither as a result nor as an error.
C6_CancelIsDistinctOutcome ==
    EndedByAbort => outcome = "cancelled"

\* C7: two consecutive invocations of the observer are at least 100 ms apart
\* by their chunk-completion timestamps.
C7_ProgressThrottled ==
    [][(emitted'.n > emitted.n /\ emitted.n >= 1)
          => emitted'.at - emitted.at >= 100]_vars

\* C7 witness: the observer has been invoked twice.
C7_Witness ==
    /\ emitted.n = 2
    /\ Len(samples) = 2

\* C8: every snapshot reports the configured connection count.
C8_SnapshotConnections ==
    emitted.n > 0 => emitted.info.connections = config.connections

\* C9: every snapshot reports the elapsed seconds since run start and
\* max(0, duration - elapsed) as the remaining seconds (in thousandths here).
C9_SnapshotTimes ==
    emitted.n > 0 =>
        /\ emitted.info.timeElapsed = emitted.at - startTime
        /\ emitted.info.timeRemaining
             = Max(0, BudgetMs - (emitted.at - startTime))

\* C10: a transfer that fails for a reason other than cancellation adds no
\* bytes and no sample; its loop goes on to its next iteration (issuing again
\* while budget is left), the other loops are untouched, and the run returns
\* only when that iteration was the last loop's exit on an expired budget.
C10_FailureSkipsChunk ==
    [][\A i \in Loops :
          (CallFail(i) /\ ~aborted) =>
              /\ totalBytes' = totalBytes
              /\ samples' = samples
              /\ \A j \in Loops \ {i} : pc'[j] = pc[j]
              /\ IF Elapsed < BudgetMs
                 THEN pc'[i] = "fetch" /\ phase' = "running"
                 ELSE pc'[i] = "done"]_vars

\* C10 witness: with no chunk completed and no abort, loop 1 has a transfer
\* in flight that it issued after run start: its earlier transfer failed.
C10_Witness ==
    /\ phase = "running"
    /\ ~aborted
    /\ samples = <<>>
    /\ pc[1] = "fetch"
    /\ chunkStart[1] > startTime
    /\ config.connections = 2
    /\ InFlight(2)

\* ------------------------------------------------------------- C11 ----
\* Integer ceiling of a / b, b > 0.
CeilDiv(a, b) == (a + b - 1) \div b

\* C11: over a transport that answers every transfer after the fixed delay d,
\* an uncancelled run of N loops and budget T has, when it returns, completed
\* ceil(T / d) transfers in every loop, and its byte total is
\* N x ceil(T / d) x chunk size.
C11_FixedDelayChunks ==
    Returned =>
        LET perLoop == CeilDiv(BudgetMs, fixed.delay)
        IN  /\ \A i \in 1..config.connections : fixed.chunksDone[i] = perLoop
            /\ totalBytes = config.connections * perLoop * config.chunkSize
            /\ result.bytesTransferred = totalBytes

\* C11 witness: two loops, a 1 s budget, a 300 ms transport (which does not
\* divide the budget): four transfers each, eight chunks in total.
C11_Witness ==
    /\ Returned
    /\ config.connections = 2
    /\ fixed.delay = 300
    /\ fixed.chunksDone[1] = 4 /\ fixed.chunksDone[2] = 4
    /\ totalBytes = 8 * config.chunkSize

\* ------------------------------------------------------------- C12 ----
ProbeReturned == prober.pc = "returned"

\* C12: the samples of a Prober run are the elapsed times of its answered
\* probes, in probe order, and a rejected probe adds no sample: a run of
\* count c with f rejected probes ends with exactly c - f samples, which are
\* the samples of the result it returns.
C12_SamplesAreSuccesses ==
    /\ prober.samples = prober.rtts
    /\ Len(prober.samples) + prober.failed + prober.inflight = Len(prober.issued)
    /\ ProbeReturned =>
          /\ Len(prober.samples) = prober.count - prober.failed
          /\ prober.outcome = "result" => prober.result.samples = prober.samples

\* C12 witness: four probes, two rejected, the answered ones taking 30 ms and
\* then 10 ms: the result lists 30, 10 (probe order, not sorted).
C12_Witness ==
    /\ ProbeReturned
    /\ prober.count = 4
    /\ prober.failed = 2
    /\ prober.outcome = "result"
    /\ prober.result.samples = <<30, 10>>

\* ------------------------------------------------------------- C13 ----
\* The median of a non-empty sample sequence: the middle sample of an odd
\* count, the mean of the two middle samples of an even count.
TrueMedian(smp) ==
    LET t == SortAsc(smp)
        n == Len(smp)
    IN  IF n % 2 = 1 THEN Quot(t[(n + 1) \div 2], 1)
        ELSE Quot(t[n \div 2] + t[n \div 2 + 1], 2)

\* C13: when every probe of a run is answered, the ping of the result is
\* the median of the samples to two decimals, for odd and for even counts.
C13_PingIsTrueMedian ==
    (ProbeReturned /\ prober.count > 0 /\ prober.failed = 0) =>
        /\ prober.outcome = "result"
        /\ prober.result.ping = ToFixed2(TrueMedian(prober.samples))

\* ------------------------------------------------------------- C14 ----
\* C14: when every probe of a run is rejected, measureLatency returns a
\* result with no samples and a NaN ping and jitter; it does not raise.
C14_AllFailedReturnsDegenerate ==
    (ProbeReturned /\ prober.count > 0 /\ prober.failed = prober.count) =>
        /\ prober.outcome = "result"
        /\ prober.result.samples = <<>>
        /\ prober.result.ping = Quot(0, 0)
        /\ prober.result.jitter = Quot(0, 0)

\* ------------------------------------------------------------- C15 ----
\* C15: a run of count c issues its requests one at a time, for the loop
\* indices 0, 1, ... in order and each index once (a rejected probe is not
\* issued again), and has issued exactly c requests when it ends.
C15_OneRequestPerProbe ==
    /\ prober.inflight \in {0, 1}
    /\ \A k \in 1..Len(prober.issued) : prober.issued[k] = k - 1
    /\ Len(prober.issued) <= prober.count
    /\ ProbeReturned => Len(prober.issued) = prober.count

\* C15 witness: a run of four probes, three of them rejected, has ended with
\* four requests issued.
C15_Witness ==
    /\ ProbeReturned
    /\ prober.count = 4
    /\ prober.failed = 3
    /\ prober.issued = <<0, 1, 2, 3>>

\* ------------------------------------------------------------- C16 ----
\* C16: a run of measureLatency always terminates, whether or not its probes
\* are answered.
C16_RunTerminates == <>ProbeReturned

\* ------------------------------------------------------------- C17 ----
RankReturned == ranker.pc = "returned"
Ranked == 1..Len(ranker.toTest)

\* Index in the ranked list of the server that was returned.
BestIndex == CHOOSE k \in Ranked : ranker.toTest[k] = ranker.best

\* Every probe of the k-th ranked server's run was answered.
RunComplete(k) == Len(ranker.runs[k]) = RankProbeCount

\* The k-th ranked server's run was answered at least once.
RunProduced(k) == ranker.runs[k] # <<>>

\* m1 <= m2 for two finite quotients.
QLeq(m1, m2) == m1.num * m2.den <= m2.num * m1.den

\* C17: when all five probes of every ranked server are answered,
\* selectBestServer returns a ranked server whose median latency is minimal
\* among the ranked servers.
C17_ReturnsMinimalMedian ==
    (RankReturned /\ Ranked # {} /\ \A k \in Ranked : RunComplete(k)) =>
        /\ ranker.outcome = "result"
        /\ \E k \in Ranked : ranker.toTest[k] = ranker.best
        /\ \A k \in Ranked :
              QLeq(TrueMedian(ranker.runs[BestIndex]), TrueMedian(ranker.runs[k]))

\* C17 witness: three servers with median latencies 50, 10 and 30 ms; the
\* second one is returned.
C17_Witness ==
    /\ RankReturned
    /\ ranker.servers = <<"cloudflare-global", "fastly-us", "fastly-eu">>
    /\ ranker.runs = <<(<<50, 50, 50, 50, 50>>), (<<10, 10, 10, 10, 10>>),
                       (<<30, 10, 50, 30, 70>>)>>
    /\ ranker.best = "fastly-us"

\* ------------------------------------------------------------- C18 ----
\* C18: when at least one ranked server's run produced a latency, the server
\* returned is one of those, whatever the latencies are: a server whose run
\* failed entirely is not returned, and the one returned has the smallest
\* reported latency among the servers whose run produced one.
C18_FailedRunNeverSelected ==
    (RankReturned /\ \E k \in Ranked : RunProduced(k)) =>
        /\ ranker.outcome = "result"
        /\ \E k \in Ranked : ranker.toTest[k] = ranker.best
        /\ RunProduced(BestIndex)
        /\ \A k \in Ranked :
              RunProduced(k) =>
                  QLeq(Ping(ranker.runs[BestIndex]), Ping(ranker.runs[k]))

\* ------------------------------------------------------------- C19 ----
\* C19: selectBestServer does not raise, for any candidate list and any
\* pattern of probe failures, and when the run of every ranked server failed
\* entirely it returns the first server of the list it was given.
C19_NeverRaisesFirstOnAllFail ==
    RankReturned =>
        /\ ranker.outcome = "result"
        /\ (\A k \in Ranked : ~RunProduced(k)) =>
               ranker.best = ranker.servers[1]

\* ------------------------------------------------------------- C20 ----
IsLocal(id) == id = "local-server"
Given == 1..Len(ranker.servers)

\* C20: when the list holds the local server and at least one other server,
\* the local server is not probed and not returned; when the local server is
\* the only candidate it is probed and returned.
C20_LocalOnlyAsLastResort ==
    /\ (ranker.pc \in {"probing", "returned"}
        /\ \E a, b \in Given : IsLocal(ranker.servers[a])
                                 /\ ~IsLocal(ranker.servers[b])) =>
          /\ "local-server" \notin ranker.probed
          /\ ranker.best # "local-server"
    /\ (RankReturned /\ ranker.servers = <<"local-server">>) =>
          /\ ranker.probed = {"local-server"}
          /\ ranker.outcome = "result"
          /\ ranker.best = "local-server"

\* C20 witness: the local server listed first with one remote server whose
\* run failed entirely: the remote server is returned all the same.
C20_Witness ==
    /\ RankReturned
    /\ ranker.servers = <<"local-server", "fastly-us">>
    /\ ranker.runs = << <<>> >>
    /\ ranker.probed = {"fastly-us"}
    /\ ranker.best = "fastly-us"

\* ------------------------------------------------------------- C21 ----
PolicyCalled == policy.pc = "called"

\* The connections table of the specification, on hundredths of a Mbps.
TableConnections(h) ==
    IF h <= 999 THEN 4
    ELSE IF h <= 4999 THEN 6
    ELSE IF h <= 9999 THEN 10
    ELSE IF h <= 24999 THEN 14
    ELSE 18

Adjacent == policy.b = policy.a + 1

ChunkSizesInRange ==
    \A k \in 1..2 :
        /\ policy.download[k] \in {1 * MiB, 2 * MiB, 3 * MiB, 5 * MiB}
        /\ policy.upload[k] \in {MiB \div 2, 1 * MiB, (3 * MiB) \div 2, 2 * MiB}

\* C22: download chunk sizes are 1, 2, 3 or 5 MiB, upload chunk sizes 0.5,
\* 1, 1.5 or 2 MiB, and in each direction the chunk size changes between two
\* adjacent estimates exactly where the connection count changes (at 10, 50,
\* 100 and 250 Mbps).
C22_SameBoundariesAsConnections ==
    PolicyCalled =>
        /\ ChunkSizesInRange
        /\ Adjacent =>
              /\ (policy.download[1] # policy.download[2])
                    <=> (policy.connections[1] # policy.connections[2])
              /\ (policy.upload[1] # policy.upload[2])
                    <=> (policy.connections[1] # policy.connections[2])

\* C22, amended: download chunk sizes are 1, 2, 3 or 5 MiB, upload chunk
\* sizes 0.5, 1, 1.5 or 2 MiB, and in each direction the chunk size changes
\* between two adjacent estimates exactly at 10, 50 and 100 Mbps: three of
\* the four thresholds of the connections table, not at 250 Mbps.
C22_ChunkBoundaries ==
    PolicyCalled =>
        /\ ChunkSizesInRange
        /\ Adjacent =>
              /\ (policy.download[1] # policy.download[2])
                    <=> policy.b \in {1000, 5000, 10000}
              /\ (policy.upload[1] # policy.upload[2])
                    <=> policy.b \in {1000, 5000, 10000}
              /\ policy.b \in {1000, 5000, 10000}
                    => policy.connections[1] # policy.connections[2]

\* C22 witness: from 249.99 to 250.00 Mbps the connection count changes and
\* neither chunk size does.
C22_Witness ==
    /\ PolicyCalled
    /\ policy.a = 24999 /\ policy.b = 25000
    /\ policy.connections[1] # policy.connections[2]
    /\ policy.download = <<5 * MiB, 5 * MiB>>
    /\ policy.upload = <<2 * MiB, 2 * MiB>>

\* ------------------------------------------------------------- C23 ----
\* C23: for every estimate, the upload chunk size is strictly smaller than
\* the download chunk size for the same estimate.
C23_UploadSmallerThanDownload ==
    PolicyCalled =>
        \A k \in 1..2 : policy.upload[k] < policy.download[k]

\* C23 witness: at 9.99 Mbps 512 KiB against 1 MiB, at 9999.99 Mbps 2 MiB
\* against 5 MiB.
C23_Witness ==
    /\ PolicyCalled
    /\ policy.a = 999 /\ policy.b = 999999
    /\ policy.upload = <<MiB \div 2, 2 * MiB>>
    /\ policy.download = <<1 * MiB, 5 * MiB>>

\* ------------------------------------------------------------- C26 ----
Cached(z) == \E e \in cache.entries : e.size = z
CacheFull == Cardinality(cache.entries) = CacheLimit

\* C26: over any sequence of upload runs, the payload of a chunk size is
\* generated at most once.
C26_GeneratedAtMostOnce ==
    \A z \in AllSizes : cache.generated[z] <= 1

\* C26, amended: a chunk size that is in the cache has been generated exactly
\* once, the cache holds that first payload, and a run that asks for it uses
\* that very payload.  (A chunk size first requested while the cache is full
\* is generated again by every run that asks for it.)
C26_CachedGeneratedOnce ==
    /\ \A e \in cache.entries :
          /\ cache.generated[e.size] = 1
          /\ e.payload = [size |-> e.size, serial |-> 1]
    /\ Cached(cache.data.size) => cache.data = CacheGet(cache.entries, cache.data.size)

\* C26 witness: the cache is full, and the latest run used the second
\* payload generated for a chunk size that is not in the cache.
C26_Witness ==
    /\ CacheFull
    /\ cache.data.serial = 2
    /\ ~Cached(cache.data.size)
    /\ cache.generated[cache.data.size] = 2

\* ------------------------------------------------------------- C27 ----
\* C27: the cache never holds more than 5 entries; an entry, once stored, is
\* in the cache unchanged after every later run; and a run that starts with
\* a full cache and a chunk size that is not cached leaves the cache as it
\* is and uses a newly generated payload.
C27_BoundedNoEviction ==
    /\ [](Cardinality(cache.entries) <= CacheLimit)
    /\ [][/\ cache.entries \subseteq cache'.entries
          /\ CacheFull => /\ cache'.entries = cache.entries
                          /\ \A z \in AllSizes :
                                cache'.generated[z] > cache.generated[z] =>
                                  /\ ~Cached(z)
                                  /\ cache'.data =
                                       [size |-> z,
                                        serial |-> cache'.generated[z]]]_vars

\* C27 witness: a full cache, the latest run having generated a payload of a
\* sixth size for itself.
C27_Witness ==
    /\ CacheFull
    /\ cache.data # NoPayload
    /\ ~Cached(cache.data.size)
    /\ cache.generated[cache.data.size] = 1

\* ------------------------------------------------------------- C24 ----
UploadCalled == test.uploadConfig # NoConfig

\* C24: the upload run of a test is called with the connection count and the
\* upload chunk size that the policy gives for the Mbps of the main download
\* result.
C24_UploadSizedFromDownload ==
    UploadCalled =>
        /\ test.uploadConfig.connections =
              GetOptimalConnections(test.downloadResult.mbps)
        /\ test.uploadConfig.chunkSize =
              GetChunkSize(test.downloadResult.mbps, "upload")

\* ------------------------------------------------------------- C25 ----
DownloadCalled == test.downloadConfig # NoConfig

C28_NonPositiveDurationRejected ==
    (Returned /\ config.duration <= 0) =>
        /\ outcome # "result"
        /\ delivered = 0
        /\ samples = <<>>

\* ------------------------------------------------------------- C29 ----
\* Every transfer of the main download failed: the run returned no sample.
DownloadAllFailed ==
    /\ test.pc \in {"upload", "saving", "done"}
    /\ test.downloadResult.samples = <<>>

\* C29: when every chunk of the main download failed, the test does not
\* submit the download as a measurement of 0 Mbps, nor end in 'complete'
\* showing it as one.
C29_AllFailedNotReportedAsZero ==
    DownloadAllFailed =>
        /\ ~(test.phase = "complete" /\ test.downloadSpeed = Estimate(0))
        /\ ~(test.saveAttempts > 0 /\ test.submitted.downloadMbps = Estimate(0))

\* ------------------------------------------------------------- C30 ----
StageOrder == <<"ranking", "latency", "pretest", "download", "upload">>

\* The calls and returns of a whole test, in order.
ExpectedLog ==
    [k \in 1..10 |-> [ev |-> IF k % 2 = 1 THEN "call" ELSE "return",
                       stage |-> StageOrder[(k + 1) \div 2]]]

ExpectedPhases == <<"selecting", "ping", "download", "upload", "complete">>

IsPrefix(a, b) == Len(a) <= Len(b) /\ a = SubSeq(b, 1, Len(a))

\* C30: in a test that is neither cancelled nor failing, the engine calls
\* are ranking, latency (20 probes against the server ranking returned),
\* pre-test, main download, upload, each made after the previous one
\* returned, and the phase goes selecting, ping, download, upload, complete
\* without a skip or a repeat; a test that has ended has made all of them.
C30_StagesInOrder ==
    (~test.cancelled /\ ~test.failed) =>
        /\ IsPrefix(test.log, ExpectedLog)
        /\ IsPrefix(test.phases, ExpectedPhases)
        /\ test.probeCount # 0 =>
              test.probeCount = 20 /\ test.probed = test.server
        /\ test.pc = "done" =>
              test.log = ExpectedLog /\ test.phases = ExpectedPhases

\* C30 witness: a test that ran to 'complete' without a cancel or a failure.
C30_Witness ==
    /\ test.pc = "done"
    /\ test.phase = "complete"
    /\ ~test.cancelled /\ ~test.failed
    /\ Len(test.log) = 10
    /\ test.probeCount = 20

\* C31: after the upload run has returned the test issues one POST of the
\* result and no more; when that POST settles - accepted, rejected by the
\* server or failed - the test sets 'complete', never 'error', and the POST
\* always leads there.
Submitting == test.pc = "saving"
Completed == test.pc = "done" /\ test.phase = "complete" /\ ~test.failed

C31_SubmitOnceThenComplete ==
    /\ [](test.saveAttempts <= 1)
    /\ [](test.pc = "done" /\ test.saved # "none" =>
             test.saveAttempts = 1 /\ Completed)
    /\ [][Submitting => test'.saveAttempts = test.saveAttempts]_vars
    /\ (Submitting ~> Completed)

\* C31 witness: a finished test whose only POST failed, shown as complete.
C31_Witness ==
    /\ Completed
    /\ test.saved = "failed"
    /\ test.saveAttempts = 1
    /\ test.uploadResult # NoResult

\* C32: of the POST requests of one client that the limiter let through, no
\* six lie less than 60 s apart (requests beyond the fifth of a 60 s
\* interval are answered 429).
PassedWithin(h, t, w) == Cardinality({k \in 1..Len(h) : t - h[k] < w})
Newest(h) == h[Len(h)]

C32_AtMostFivePerMinute ==
    \A ip \in Ips :
        api.posted[ip] # <<>> =>
            PassedWithin(api.posted[ip], Newest(api.posted[ip]), PostWindowMs)
                <= PostMaxRequests

\* C33: every stored row has a non-empty serverId of at most 100 characters,
\* all of them letters, digits or hyphens, and ping, jitter, downloadMbps,
\* uploadMbps within 0-10000, 0-1000, 0-100000, 0-100000.
AlnumHyphen == Letters \cup Digits \cup {"-"}

RowAsDocumented(r) ==
    /\ Len(r.serverId) >= 1
    /\ Len(r.serverId) <= MaxServerIdLength
    /\ \A k \in 1..Len(r.serverId) : r.serverId[k] \in AlnumHyphen
    /\ r.ping >= 0 /\ r.ping <= MaxPing
    /\ r.jitter >= 0 /\ r.jitter <= MaxJitter
    /\ r.downloadMbps >= 0 /\ r.downloadMbps <= MaxMbps
    /\ r.uploadMbps >= 0 /\ r.uploadMbps <= MaxMbps

C33_StoredOnlyIfValid ==
    \A k \in 1..Len(api.store) : RowAsDocumented(api.store[k])

\* C39: the two limits are accounted separately.  A DELETE is answered 429
\* only when two DELETEs of that client passed within the 5 minutes before
\* it, a POST only when five POSTs of that client passed within the minute
\* before it: requests of the other method use up nothing.
PassedBefore(h, t, w) == Cardinality({k \in 1..Len(h) : t - h[k] <= w})

C39_SeparateAccounting ==
    api.last.status = 429 =>
        IF api.last.method = "DELETE"
        THEN PassedBefore(api.deleted[api.last.ip], api.last.at,
                          DeleteWindowMs) >= DeleteMaxRequests
        ELSE PassedBefore(api.posted[api.last.ip], api.last.at,
                          PostWindowMs) >= PostMaxRequests

\* C34: once cancelTest has been invoked during a test, that test sets no
\* testing phase and no 'complete' afterwards, and posts no result.
TestingPhases == {"selecting", "ping", "download", "upload"}

C34_CancelledStaysIdle ==
    test.cancelled =>
        /\ test.phase \notin TestingPhases \cup {"complete"}
        /\ ~test.savedAfterCancel

\* C35: at most one invocation of startTest is in flight, and the newest
\* invocation in flight finds its own controller in abortControllerRef: no
\* other invocation has cleared or replaced it.
InFlightTests == {k \in Tests : Running(k)}

C35_OneTestInFlight ==
    /\ Cardinality(InFlightTests) <= 1
    /\ \A k \in InFlightTests :
          (\A j \in InFlightTests : j <= k) => page.ref = k


\* ------------------------------------------------------------- C37 ----
\* C37: a transfer answered with a non-success HTTP status adds no bytes and
\* no sample: every transfer a run counted was answered with status 200.
C37_OnlySuccessCounted == \A k \in 1..Len(answers) : answers[k] = 200

\* ------------------------------------------------------------- C36 ----
\* C36: the mbps and the bytesTransferred of the result a run returns are
\* finite and non-negative, also after an upload answered with an error body
\* that has no bytesReceived field.
C36_ResultIsFinite ==
    Returned => /\ result.mbps.den > 0
                /\ result.mbps.num >= 0
                /\ result.bytesTransferred # NaN
                /\ result.bytesTransferred >= 0

\* ------------------------------------------------------------- C38 ----
\* C38: a run of positive duration whose calls each complete or fail
\* eventually returns.
C38_RunReturns == (phase = "running") ~> Returned

\* C38 witness: a run that returned once its budget had elapsed although
\* every one of its transfers failed.
C38_Witness ==
    /\ Returned
    /\ config.duration > 0
    /\ config.connections = MaxConnections
    /\ samples = <<>>
    /\ result.duration >= config.duration * 1000

====
